---- MODULE Spec2Model ----
(***************************************************************************)
(* Record/replay caching proxy (ReplayProvider) of                         *)
(* llama_stack/providers/utils/replay_provider.py.                         *)
(*                                                                         *)
(* State: the fields of every constructed dispatcher (disp), the shared    *)
(* cache directory tree (dirs, files), the call counter of every real      *)
(* backend object (call_count), the calls every real backend object got    *)
(* through the lifecycle passthroughs (lifecycle), the invokes (__acall__) *)
(* suspended at the awaited real-backend call (tasks), and what the most   *)
(* recently finished call gave its caller (last).  An invoke has one       *)
(* suspension point, the awaited backend call: everything before it is one *)
(* step (Call), everything after it is one step (BackendReturn or          *)
(* BackendRaise).                                                          *)
(***************************************************************************)
EXTENDS Integers, Sequences, FiniteSets, TLC

VARIABLES disp, dirs, files, call_count, lifecycle, tasks, last

vars == <<disp, dirs, files, call_count, lifecycle, tasks, last>>

-----------------------------------------------------------------------------
(* Bounds *)

\* number of invokes that can be suspended at the backend call at once
MaxTasks == 2
\* cap on the number of real-backend invocations in one run
MaxCalls == 2
\* cap on the number of lifecycle calls forwarded to real backends in one run
MaxLifecycle == 2
\* cap on the number of dispatchers the factory builds in one run
MaxBuilt == 2

-----------------------------------------------------------------------------
(* Strings *)

RECURSIVE JoinStr(_, _)
JoinStr(seq, sep) ==
    IF seq = <<>> THEN ""
    ELSE IF Len(seq) = 1 THEN seq[1]
    ELSE seq[1] \o sep \o JoinStr(Tail(seq), sep)

DigitStr(n) ==
    CASE n = 0 -> "0" [] n = 1 -> "1" [] n = 2 -> "2" [] n = 3 -> "3"
      [] n = 4 -> "4" [] n = 5 -> "5" [] n = 6 -> "6" [] n = 7 -> "7"
      [] n = 8 -> "8" [] n = 9 -> "9"

RECURSIVE IntStr(_)
IntStr(n) == IF n < 10 THEN DigitStr(n) ELSE IntStr(n \div 10) \o DigitStr(n % 10)

\* str.lower() on one character
LowerChar(c) ==
    CASE c = "A" -> "a" [] c = "B" -> "b" [] c = "C" -> "c" [] c = "D" -> "d"
      [] c = "E" -> "e" [] c = "F" -> "f" [] c = "G" -> "g" [] c = "H" -> "h"
      [] c = "I" -> "i" [] c = "J" -> "j" [] c = "K" -> "k" [] c = "L" -> "l"
      [] c = "M" -> "m" [] c = "N" -> "n" [] c = "O" -> "o" [] c = "P" -> "p"
      [] c = "Q" -> "q" [] c = "R" -> "r" [] c = "S" -> "s" [] c = "T" -> "t"
      [] c = "U" -> "u" [] c = "V" -> "v" [] c = "W" -> "w" [] c = "X" -> "x"
      [] c = "Y" -> "y" [] c = "Z" -> "z" [] OTHER -> c

Lower(chars) == [i \in 1..Len(chars) |-> LowerChar(chars[i])]

\* str.replace(old, new) on character sequences: leftmost, non-overlapping
RECURSIVE Replace(_, _, _)
Replace(s, old, new) ==
    IF Len(s) < Len(old) THEN s
    ELSE IF SubSeq(s, 1, Len(old)) = old
         THEN new \o Replace(SubSeq(s, Len(old) + 1, Len(s)), old, new)
         ELSE <<s[1]>> \o Replace(Tail(s), old, new)

-----------------------------------------------------------------------------
(* Python values, as the caller and the backend see them *)

\* argument and field values: a str, an int, None, a nested model object and
\* a nested mapping (the last two hold fields of their own, one level deep)
S(s) == [t |-> "s", s |-> s, i |-> 0, fs |-> <<>>]
I(i) == [t |-> "i", s |-> "", i |-> i, fs |-> <<>>]
N == [t |-> "n", s |-> "", i |-> 0, fs |-> <<>>]
O(fs) == [t |-> "o", s |-> "", i |-> 0, fs |-> fs]
M(fs) == [t |-> "m", s |-> "", i |-> 0, fs |-> fs]
F(k, v) == [k |-> k, v |-> v]

ReprStr(s) == "'" \o s \o "'"
ReprVal(v) == IF v.t = "s" THEN ReprStr(v.s) ELSE IntStr(v.i)

\* repr of a tuple of positional arguments
TupleRepr(args) ==
    IF Len(args) = 0 THEN "()"
    ELSE IF Len(args) = 1 THEN "(" \o ReprVal(args[1]) \o ",)"
    ELSE "(" \o JoinStr([i \in 1..Len(args) |-> ReprVal(args[i])], ", ") \o ")"

\* repr of a dict with str keys, in insertion order
DictRepr(kw) ==
    "{" \o JoinStr([i \in 1..Len(kw) |-> ReprStr(kw[i].k) \o ": " \o ReprVal(kw[i].v)], ", ") \o "}"

PyNone == [py |-> "None", cls |-> "NoneType", text |-> "", fields |-> <<>>]
PyStr(s) == [py |-> "str", cls |-> "str", text |-> s, fields |-> <<>>]
PyDict(fs) == [py |-> "dict", cls |-> "dict", text |-> "", fields |-> fs]
PyModel(cls, fs) == [py |-> "model", cls |-> cls, text |-> "", fields |-> fs]
PyInt(i) == [py |-> "int", cls |-> "int", text |-> "", fields |-> <<I(i)>>]
PyList(items) == [py |-> "list", cls |-> "list", text |-> "", fields |-> items]

\* str(value)
Str(v) ==
    CASE v.py = "None" -> "None"
      [] v.py = "str" -> v.text
      [] v.py = "dict" -> DictRepr(v.fields)
      [] v.py = "int" -> IntStr(v.fields[1].i)
      [] v.py = "list" ->
           "[" \o JoinStr([i \in 1..Len(v.fields) |-> ReprVal(v.fields[i])], ", ") \o "]"
      [] OTHER -> v.cls \o "(...)"

\* JSON values held in a record file
JNull == [j |-> "null", text |-> "", fields |-> <<>>]
JString(s) == [j |-> "string", text |-> s, fields |-> <<>>]
JObject(fs) == [j |-> "object", text |-> "", fields |-> fs]

-----------------------------------------------------------------------------
(* The wrapped interface, the backends and the calls of the unit tests *)

\* a member of an interface class: its name and whether it carries __webmethod__
Member(name, webmethod) == [name |-> name, webmethod |-> webmethod]

MockInferenceProvider ==
    [name |-> <<"M","o","c","k","I","n","f","e","r","e","n","c","e",
                "P","r","o","v","i","d","e","r">>,
     members |-> {Member("completion", TRUE), Member("__init__", FALSE)}]

\* an interface whose marked operation has the name of a lifecycle entry point
MockModelsProvider ==
    [name |-> <<"M","o","c","k","M","o","d","e","l","s","P","r","o","v","i","d","e","r">>,
     members |-> {Member("register_model", TRUE), Member("helper", FALSE),
                  Member("__init__", FALSE)}]

Protocols == {MockInferenceProvider, MockModelsProvider}

\* the entry points ReplayProvider defines itself
LifecycleOps == {"initialize", "shutdown", "register_model", "unregister_model"}

\* operation names a caller may pass to __acall__
OpNames == {"completion", "bogus", "register_model", "helper"}

Backends == {"b1", "b2", "b3", "b4", "b5", "b6"}

\* type(real_provider).__name__: b1 and b6 are objects of the two classes
\* named MockRealProvider that the unit tests define, one in each test module
BackendTypeName(b) ==
    CASE b = "None" -> "NoneType"
      [] b = "b1" -> "MockRealProvider"
      [] b = "b6" -> "MockRealProvider"
      [] b = "b2" -> "OtherRealProvider"
      [] b = "b3" -> "ModelsImpl"
      [] b = "b4" -> "PlainProvider"
      [] b = "b5" -> "EmptyProvider"

\* bool(real_provider): None is false, and so is b5, an object whose class
\* defines __len__ and that holds nothing
BackendTruthy(b) == b \notin {"None", "b5"}

\* hasattr(real_provider, name) for the lifecycle names
BackendHas(b, name) ==
    CASE b = "None" -> FALSE
      [] b = "b1" -> name \in {"initialize", "shutdown"}
      [] b = "b2" -> name \in {"initialize", "shutdown"}
      [] b = "b3" -> name \in LifecycleOps
      [] b = "b4" -> FALSE
      [] b = "b5" -> FALSE
      [] b = "b6" -> name \in {"initialize", "shutdown"}

CompletionArgs == {"hello", "swapped", "collA", "collB"}
ModelArgs == {"m1"}
ArgIds == CompletionArgs \cup ModelArgs

\* the invokes callers issue: the routed operation with every argument set, and
\* a name the interface does not declare
Invocations == {<<"completion", a>> : a \in CompletionArgs} \cup {<<"bogus", "hello">>}

\* the invokes callers issue on a dispatcher over MockModelsProvider
ModelInvocations == {<<"register_model", "m1">>, <<"helper", "m1">>}

InvocationsOn(protocol) ==
    IF protocol = MockModelsProvider THEN ModelInvocations ELSE Invocations

ArgTable(a) ==
    CASE a = "hello" ->
           [args |-> <<>>,
            kwargs |-> <<F("model_id", S("test-model")), F("content", S("Hello world"))>>]
      [] a = "swapped" ->
           [args |-> <<>>,
            kwargs |-> <<F("content", S("Hello world")), F("model_id", S("test-model"))>>]
      [] a = "collA" ->
           [args |-> <<>>,
            kwargs |-> <<F("model_id", S("test-model")), F("content", S("msg 6104"))>>]
      [] a = "collB" ->
           [args |-> <<>>,
            kwargs |-> <<F("model_id", S("test-model")), F("content", S("msg 90004"))>>]
      [] a = "m1" ->
           [args |-> <<S("m1")>>, kwargs |-> <<>>]

RECURSIVE KwLookup(_, _)
KwLookup(kw, k) ==
    IF kw = <<>> THEN S("")
    ELSE IF kw[1].k = k THEN kw[1].v ELSE KwLookup(Tail(kw), k)

\* two calls pass different arguments when some named argument differs
SameArguments(a1, a2) ==
    /\ ArgTable(a1).args = ArgTable(a2).args
    /\ {ArgTable(a1).kwargs[i] : i \in 1..Len(ArgTable(a1).kwargs)}
         = {ArgTable(a2).kwargs[i] : i \in 1..Len(ArgTable(a2).kwargs)}

-----------------------------------------------------------------------------
(* Cache key and cache path *)

\* hashlib.md5(param_str.encode()).hexdigest()[:8], tabulated on the
\* renderings of ArgTable
Md5Hex8(param_str) ==
    CASE param_str = "()_{'model_id': 'test-model', 'content': 'Hello world'}" -> "4779be7f"
      [] param_str = "()_{'content': 'Hello world', 'model_id': 'test-model'}" -> "5d9c9a59"
      [] param_str = "()_{'model_id': 'test-model', 'content': 'msg 6104'}" -> "55f609f6"
      [] param_str = "()_{'model_id': 'test-model', 'content': 'msg 90004'}" -> "55f609f6"
      [] param_str = "('m1',)_{}" -> "97b5446b"

ParamStr(a) == TupleRepr(ArgTable(a).args) \o "_" \o DictRepr(ArgTable(a).kwargs)

\* param_hash of every call of ArgIds, evaluated once
ParamHashTable == [a \in ArgIds |-> Md5Hex8(ParamStr(a))]

\* type(self.real_provider).__name__ if self.real_provider else "NoProvider"
ProviderType(self) ==
    IF BackendTruthy(self.real_provider) THEN BackendTypeName(self.real_provider)
    ELSE "NoProvider"

ProtocolNameTable == [protocol \in Protocols |-> JoinStr(protocol.name, "")]
ProtocolName(protocol) == ProtocolNameTable[protocol]

\* protocol.__name__.lower().replace("provider", ""), evaluated once per protocol
ApiNameTable ==
    [protocol \in Protocols |->
        JoinStr(Replace(Lower(protocol.name), <<"p","r","o","v","i","d","e","r">>, <<>>), "")]

ApiName(protocol) == ApiNameTable[protocol]

\* variant: the dispatcher's mode is made part of the key
GenerateCacheKeyWithMode(self, method_name, a) ==
    ApiName(self.protocol) \o "_" \o ProviderType(self) \o "_" \o method_name
        \o "_" \o self.mode \o "_" \o ParamHashTable[a]

GenerateCacheKey(self, method_name, a) ==
    ApiName(self.protocol) \o "_" \o ProviderType(self) \o "_" \o method_name
        \o "_" \o ParamHashTable[a]

\* the namespace directory of a dispatcher and the directories mkdir(parents=True) makes
\* variant: the namespace is also split by the dispatcher's mode
NamespaceDirByMode(self) ==
    <<self.cache_dir, ApiName(self.protocol), ProviderType(self) \o "_" \o self.mode>>

NamespaceDir(self) == <<self.cache_dir, ApiName(self.protocol), ProviderType(self)>>
MkdirParents(self) == {<<self.cache_dir, ApiName(self.protocol)>>, NamespaceDir(self)}

\* variant: the records of all interfaces share the directory of the backend type
GetCachePathNoApi(self, cache_key) ==
    <<self.cache_dir, ProviderType(self), cache_key \o ".json">>

GetCachePath(self, cache_key) == NamespaceDir(self) \o <<cache_key \o ".json">>

-----------------------------------------------------------------------------
(* Response codec *)

DecodeRegistry == {"ChatCompletionResponse", "CompletionResponse", "EmbeddingsResponse"}

HasModelDump(v) == v.py = "model"

\* hasattr(response, "dict") on a value without model_dump: an object of the
\* older model base class
HasDict(v) == v.py = "legacy"

\* response.model_dump(mode="json"): the field view of the object, in which a
\* nested model object is a mapping of its fields and None stays None
ModelDump(fs) ==
    [i \in 1..Len(fs) |-> F(fs[i].k, IF fs[i].v.t = "o" THEN M(fs[i].v.fs) ELSE fs[i].v)]

\* variant: what JSON can hold is stored as it is, a mapping as an object
\* and None as null
SerializeNative(response) ==
    IF HasModelDump(response) THEN JObject(ModelDump(response.fields))
    ELSE IF HasDict(response) THEN JObject(response.fields)
    ELSE IF response.py = "dict" THEN JObject(response.fields)
    ELSE IF response.py = "None" THEN JNull
    ELSE JString(Str(response))

Serialize(response) ==
    IF HasModelDump(response) THEN JObject(ModelDump(response.fields))
    ELSE IF HasDict(response) THEN JObject(response.fields)
    ELSE JString(Str(response))

\* variant: the record stores the name of its file in place of the key
CacheDataFileName(self, cache_key, response) ==
    [cache_key |-> cache_key \o ".json",
     response |-> Serialize(response),
     metadata |-> [provider_type |-> ProviderType(self),
                   api_name |-> ProtocolName(self.protocol),
                   response_type |-> response.cls]]

CacheData(self, cache_key, response) ==
    [cache_key |-> cache_key,
     response |-> Serialize(response),
     metadata |-> [provider_type |-> ProviderType(self),
                   api_name |-> ProtocolName(self.protocol),
                   response_type |-> response.cls]]

\* the content of a file whose text json.load cannot parse: no field is set
Unparseable ==
    [cache_key |-> "",
     response |-> [j |-> "invalid", text |-> "{\"cache_key\": ", fields |-> <<>>],
     metadata |-> [provider_type |-> "", api_name |-> "", response_type |-> ""]]

\* json.load(f) returns instead of raising
Parses(content) == content.response.j # "invalid"

\* the Python value json.load gives for a stored JSON value
JsonToPy(jv) ==
    CASE jv.j = "null" -> PyNone
      [] jv.j = "string" -> PyStr(jv.text)
      [] jv.j = "object" -> PyDict(jv.fields)

Truthy(v) ==
    CASE v.py = "None" -> FALSE
      [] v.py = "str" -> v.text # ""
      [] v.py = "dict" -> v.fields # <<>>
      [] OTHER -> TRUE

\* The registered types are imported from llama_stack.apis.inference when a
\* record is decoded.  What is known of them here is what the replay test of
\* chat_completion reads: a ChatCompletionResponse has a completion_message,
\* an object with a content and a stop_reason, and may have metrics; its
\* record holds a mapping "completion_message" with a key "content".  Nothing
\* is known of the other two registered types: no record and no result of
\* their names occurs below, and the two definitions that follow are defined
\* for ChatCompletionResponse alone.

FieldOf(fs, k) == fs[CHOOSE j \in 1..Len(fs) : fs[j].k = k].v
Keys(fs) == {fs[j].k : j \in 1..Len(fs)}

\* the fields of the completion_message of a ChatCompletionResponse
CompletionMessageFields == <<"content", "stop_reason">>

\* ChatCompletionResponse(**response_data) returns instead of raising: the
\* mapping holds a completion_message that is a mapping with a str content
\* and a str stop_reason, and its metrics, if any, is null
CanConstruct(cls, response_data) ==
    CASE cls = "ChatCompletionResponse" ->
           /\ response_data.py = "dict"
           /\ "completion_message" \in Keys(response_data.fields)
           /\ LET message == FieldOf(response_data.fields, "completion_message")
              IN  /\ message.t = "m"
                  /\ \A i \in 1..Len(CompletionMessageFields) :
                        /\ CompletionMessageFields[i] \in Keys(message.fs)
                        /\ FieldOf(message.fs, CompletionMessageFields[i]).t = "s"
           /\ "metrics" \in Keys(response_data.fields)
                 => FieldOf(response_data.fields, "metrics").t = "n"

\* the fields of ChatCompletionResponse(**response_data): completion_message
\* as an object of its two fields, and metrics, None when the mapping has none;
\* any other key of the mapping is left out
Construct(cls, fs) ==
    CASE cls = "ChatCompletionResponse" ->
           LET message == FieldOf(fs, "completion_message")
           IN  <<F("completion_message",
                   O([i \in 1..Len(CompletionMessageFields) |->
                         F(CompletionMessageFields[i],
                           FieldOf(message.fs, CompletionMessageFields[i]))])),
                 F("metrics", N)>>

DecodeRecord(cached_data) ==
    LET response_data == JsonToPy(cached_data.response)
        response_type == cached_data.metadata.response_type
    IN  IF /\ response_type # ""
           /\ Truthy(response_data)
           /\ response_type \in DecodeRegistry
           /\ CanConstruct(response_type, response_data)
        THEN PyModel(response_type, Construct(response_type, response_data.fields))
        ELSE response_data

\* variant: a file that does not parse is taken for a file that is not there
LoadRaisesNever(self, cache_key, fs) == FALSE

\* _load_from_cache raises: the file exists and json.load fails on it
LoadRaises(self, cache_key, fs) ==
    LET cache_path == GetCachePath(self, cache_key)
    IN  cache_path \in DOMAIN fs /\ ~Parses(fs[cache_path])

\* variant: a record counts only when its metadata names the namespace of the
\* dispatcher (metadata.api_name holds the interface name as declared)
LoadFromCacheChecksApiName(self, cache_key, fs) ==
    LET cache_path == GetCachePath(self, cache_key)
    IN  IF /\ cache_path \in DOMAIN fs
           /\ Parses(fs[cache_path])
           /\ fs[cache_path].metadata.api_name = ApiName(self.protocol)
        THEN DecodeRecord(fs[cache_path])
        ELSE PyNone

\* variant: under CACHE_ONLY the lookup returns the stored response as it is,
\* in its text form, without decoding it
LoadFromCacheRawWhenCacheOnly(self, cache_key, fs) ==
    LET cache_path == GetCachePath(self, cache_key)
    IN  IF cache_path \in DOMAIN fs /\ Parses(fs[cache_path])
        THEN IF self.mode = "CACHE_ONLY"
             THEN PyStr("response: " \o Str(JsonToPy(fs[cache_path].response)))
             ELSE DecodeRecord(fs[cache_path])
        ELSE PyNone

LoadFromCache(self, cache_key, fs) ==
    LET cache_path == GetCachePath(self, cache_key)
    IN  IF cache_path \in DOMAIN fs /\ Parses(fs[cache_path])
        THEN DecodeRecord(fs[cache_path])
        ELSE PyNone

-----------------------------------------------------------------------------
(* Results a real backend can return *)

\* MockRealProvider.completion of the unit tests
MockCompletion(a, n) ==
    PyDict(<<F("content", S("Response to: " \o KwLookup(ArgTable(a).kwargs, "content").s)),
             F("model", KwLookup(ArgTable(a).kwargs, "model_id")),
             F("call_number", I(n))>>)

\* a structured result of a registered type, as the replay test of
\* chat_completion reads it
ChatCompletionResponseOf(a) ==
    PyModel("ChatCompletionResponse",
            <<F("completion_message",
                O(<<F("content", S("Response to: " \o KwLookup(ArgTable(a).kwargs, "content").s)),
                    F("stop_reason", S("end_of_turn"))>>)),
              F("metrics", N)>>)

\* a structured result of a type the decode registry does not know
ResponseErrorOf(a) ==
    PyModel("OpenAIResponseError",
            <<F("code", S("server_error")),
              F("message", S("No answer to: " \o KwLookup(ArgTable(a).kwargs, "content").s))>>)

\* a structured result of the older model base class: it has dict() and no
\* model_dump()
LegacyResponseOf(a) ==
    [py |-> "legacy", cls |-> "LegacyResponse", text |-> "",
     fields |-> <<F("content", S("Response to: " \o KwLookup(ArgTable(a).kwargs, "content").s))>>]

\* what the register_model of a backend returns for a model: the model as the
\* backend registered it
RegisteredModel(a) == PyStr(ArgTable(a).args[1].s \o "@impl")

\* results without a structured-field view: None, a number, a list, an empty
\* string
PlainResults == {PyNone, PyInt(7), PyList(<<I(1), S("a")>>), PyStr("")}

\* b1 is the MockRealProvider of the unit tests, whose result carries its call
\* number; b2 returns one of two structured results; b4 returns plain values;
\* b5 returns a result of the older model base class
BackendResults(b, a, n) ==
    CASE b = "b1" -> {MockCompletion(a, n)}
      [] b = "b2" -> {ChatCompletionResponseOf(a), ResponseErrorOf(a)}
      [] b = "b3" -> {RegisteredModel(a)}
      [] b = "b4" -> PlainResults
      [] b = "b5" -> {LegacyResponseOf(a)}
      [] b = "b6" -> {MockCompletion(a, n)}

-----------------------------------------------------------------------------
(* Dispatchers *)

\* variant: every member of the interface is routed, marked or not
RoutesAllMembers(protocol) == {m.name : m \in protocol.members}

\* self.routes: the names of the members that carry __webmethod__
Routes(protocol) == {m.name : m \in {x \in protocol.members : x.webmethod}}

\* the attribute of the class built for an interface under a name: the method
\* synthesized for a marked member (setattr replaces what the class body
\* defined), else the passthrough of the class body, else nothing
EntryPoint(protocol, name) ==
    IF \E m \in protocol.members : m.name = name /\ m.webmethod THEN "cached"
    ELSE IF name \in LifecycleOps THEN "passthrough"
    ELSE "none"

NewDispatcher(real_provider, mode, cache_dir, protocol) ==
    [real_provider |-> real_provider, mode |-> mode, cache_dir |-> cache_dir,
     protocol |-> protocol, routes |-> Routes(protocol)]

IdleTask == [pc |-> "idle", d |-> "", op |-> "", a |-> "", key |-> "", n |-> 0]

\* what an invoke gave its caller: a returned value or a raised error
Outcome(d, op, a, key, out, msg, val, via) ==
    [d |-> d, op |-> op, a |-> a, key |-> key,
     out |-> out, msg |-> msg, val |-> val, via |-> via]

NoOutcome == Outcome("", "", "", "", "", "", PyNone, "")

\* every dispatcher the callers construct, by name
Constructed(d) ==
    CASE d = "fb" -> NewDispatcher("b1", "CACHE_WITH_FALLBACK", "root", MockInferenceProvider)
      [] d = "co" -> NewDispatcher("b1", "CACHE_ONLY", "root", MockInferenceProvider)
      [] d = "fbNone" -> NewDispatcher("None", "CACHE_WITH_FALLBACK", "root", MockInferenceProvider)
      [] d = "coNone" -> NewDispatcher("None", "CACHE_ONLY", "root2", MockInferenceProvider)
      [] d = "fbOther" -> NewDispatcher("b2", "CACHE_WITH_FALLBACK", "root", MockInferenceProvider)
      [] d = "fbModels" -> NewDispatcher("b3", "CACHE_WITH_FALLBACK", "root", MockModelsProvider)
      [] d = "fbPlain" -> NewDispatcher("b4", "CACHE_WITH_FALLBACK", "root", MockInferenceProvider)
      [] d = "coPlain" -> NewDispatcher("b4", "CACHE_ONLY", "root", MockInferenceProvider)
      [] d = "fbEmpty" -> NewDispatcher("b5", "CACHE_WITH_FALLBACK", "root", MockInferenceProvider)
      [] d = "fbTwin" -> NewDispatcher("b6", "CACHE_WITH_FALLBACK", "root", MockInferenceProvider)

DispatcherNames ==
    {"fb", "co", "fbNone", "coNone", "fbOther", "fbModels", "fbPlain", "coPlain", "fbEmpty",
     "fbTwin"}

\* the sets of dispatchers that share one run
Deployments ==
    {{"fb", "co"}, {"fb", "fbOther"}, {"fb", "fbNone"}, {"fbNone", "coNone"},
     {"fbNone", "fbEmpty"}, {"co", "fbTwin"}}

\* the directories that hold the files of a store
ParentDirs(fs) == UNION {{SubSeq(p, 1, 2), SubSeq(p, 1, 3)} : p \in DOMAIN fs}

\* the state after the dispatchers of ds were constructed on the store fs
InitWith(ds, fs) ==
    /\ disp = [d \in ds |-> Constructed(d)]
    /\ dirs = ParentDirs(fs)
    /\ files = fs
    /\ call_count = [b \in Backends |-> 0]
    /\ lifecycle = [b \in Backends |-> [m \in LifecycleOps |-> 0]]
    /\ tasks = [t \in 1..MaxTasks |-> IdleTask]
    /\ last = NoOutcome

Init == \E ds \in Deployments : InitWith(ds, <<>>)

-----------------------------------------------------------------------------
(* __acall__ *)

CallsMade ==
    call_count["b1"] + call_count["b2"] + call_count["b3"] + call_count["b4"]
      + call_count["b5"] + call_count["b6"]

\* errors the awaited backend operation can raise
BackendErrors == {"ConnectionError"}

\* the slot a new call takes: the lowest one that is not suspended
FreeSlot(t) ==
    /\ tasks[t].pc = "idle"
    /\ \A u \in 1..MaxTasks : u < t => tasks[u].pc # "idle"

UnknownMethodMessage(method_name) == "Unknown method: " \o method_name
CacheOnlyMissMessage(cache_key) == "Cache miss for " \o cache_key \o " and mode is CACHE_ONLY"
NoProviderMessage(cache_key) == "Cache miss for " \o cache_key \o " and no real provider available"

\* variant: the mode is compared with the enum's value string, never equal
AcallDecisionModeString(self, method_name, cached_response) ==
    IF method_name \notin self.routes THEN "unknown"
    ELSE IF cached_response # PyNone THEN "hit"
    ELSE IF self.mode = "cache_only" THEN "cache_miss"
    ELSE IF self.real_provider = "None" THEN "no_provider"
    ELSE "call"

\* variant: a missing backend is reported by the CACHE_ONLY branch
AcallDecisionNoProviderAsMiss(self, method_name, cached_response) ==
    IF method_name \notin self.routes THEN "unknown"
    ELSE IF cached_response # PyNone THEN "hit"
    ELSE IF self.mode = "CACHE_ONLY" \/ self.real_provider = "None" THEN "cache_miss"
    ELSE "call"

\* variant: a miss falls back to the backend whenever there is one, in any mode
AcallDecisionFallbackWhenPossible(self, method_name, cached_response) ==
    IF method_name \notin self.routes THEN "unknown"
    ELSE IF cached_response # PyNone THEN "hit"
    ELSE IF self.real_provider # "None" THEN "call"
    ELSE IF self.mode = "CACHE_ONLY" THEN "cache_miss"
    ELSE "no_provider"

\* variant: the presence of a backend is checked before the mode
AcallDecisionBackendFirst(self, method_name, cached_response) ==
    IF method_name \notin self.routes THEN "unknown"
    ELSE IF cached_response # PyNone THEN "hit"
    ELSE IF self.real_provider = "None" THEN "no_provider"
    ELSE IF self.mode = "CACHE_ONLY" THEN "cache_miss"
    ELSE "call"

\* the branch __acall__ takes, given what _load_from_cache returned
AcallDecision(self, method_name, cached_response) ==
    IF method_name \notin self.routes THEN "unknown"
    ELSE IF cached_response # PyNone THEN "hit"
    ELSE IF self.mode = "CACHE_ONLY" THEN "cache_miss"
    ELSE IF self.real_provider = "None" THEN "no_provider"
    ELSE "call"

\* variant: the cache path is resolved before the operation name is checked
LookupDirsAlways(self, method_name) == MkdirParents(self)

\* the directories an invoke has made by the time it decides: _load_from_cache
\* runs _get_cache_path, which runs only once the operation name is known
LookupDirs(self, method_name) ==
    IF method_name \in self.routes THEN MkdirParents(self) ELSE {}

\* variant: a hit saves the value it is about to return, as a miss does
CallSavesHit(t, d, op, a) ==
    LET self == disp[d]
        cache_key == GenerateCacheKey(self, op, a)
        cached_response == LoadFromCache(self, cache_key, files)
        decision == IF op \in self.routes /\ LoadRaises(self, cache_key, files)
                    THEN "load_error"
                    ELSE AcallDecision(self, op, cached_response)
    IN  /\ FreeSlot(t)
        /\ dirs' = dirs \cup LookupDirs(self, op)
        /\ CASE decision = "unknown" ->
                  /\ last' = Outcome(d, op, a, "", "AttributeError", UnknownMethodMessage(op),
                                     PyNone, "")
                  /\ UNCHANGED <<call_count, tasks, files>>
             [] decision = "load_error" ->
                  /\ last' = Outcome(d, op, a, cache_key, "JSONDecodeError", "Expecting value",
                                     PyNone, "")
                  /\ UNCHANGED <<call_count, tasks, files>>
             [] decision = "hit" ->
                  /\ last' = Outcome(d, op, a, cache_key, "return", "", cached_response, "cache")
                  /\ files' = [files EXCEPT ![GetCachePath(self, cache_key)] =
                                  CacheData(self, cache_key, cached_response)]
                  /\ UNCHANGED <<call_count, tasks>>
             [] decision = "cache_miss" ->
                  /\ last' = Outcome(d, op, a, cache_key, "RuntimeError",
                                     CacheOnlyMissMessage(cache_key), PyNone, "")
                  /\ UNCHANGED <<call_count, tasks, files>>
             [] decision = "no_provider" ->
                  /\ last' = Outcome(d, op, a, cache_key, "RuntimeError",
                                     NoProviderMessage(cache_key), PyNone, "")
                  /\ UNCHANGED <<call_count, tasks, files>>
             [] decision = "call" ->
                  /\ CallsMade < MaxCalls
                  /\ call_count' = [call_count EXCEPT ![self.real_provider] = @ + 1]
                  /\ tasks' = [tasks EXCEPT ![t] =
                         [pc |-> "awaiting", d |-> d, op |-> op, a |-> a, key |-> cache_key,
                          n |-> call_count[self.real_provider] + 1]]
                  /\ UNCHANGED <<last, files>>
        /\ UNCHANGED <<disp, lifecycle>>

\* __acall__ from its entry to its first suspension or its end
Call(t, d, op, a) ==
    LET self == disp[d]
        cache_key == GenerateCacheKey(self, op, a)
        cached_response == LoadFromCache(self, cache_key, files)
        decision == IF op \in self.routes /\ LoadRaises(self, cache_key, files)
                    THEN "load_error"
                    ELSE AcallDecision(self, op, cached_response)
    IN  /\ FreeSlot(t)
        /\ dirs' = dirs \cup LookupDirs(self, op)
        /\ CASE decision = "unknown" ->
                  /\ last' = Outcome(d, op, a, "", "AttributeError", UnknownMethodMessage(op),
                                     PyNone, "")
                  /\ UNCHANGED <<call_count, tasks>>
             [] decision = "load_error" ->
                  /\ last' = Outcome(d, op, a, cache_key, "JSONDecodeError", "Expecting value",
                                     PyNone, "")
                  /\ UNCHANGED <<call_count, tasks>>
             [] decision = "hit" ->
                  /\ last' = Outcome(d, op, a, cache_key, "return", "", cached_response, "cache")
                  /\ UNCHANGED <<call_count, tasks>>
             [] decision = "cache_miss" ->
                  /\ last' = Outcome(d, op, a, cache_key, "RuntimeError",
                                     CacheOnlyMissMessage(cache_key), PyNone, "")
                  /\ UNCHANGED <<call_count, tasks>>
             [] decision = "no_provider" ->
                  /\ last' = Outcome(d, op, a, cache_key, "RuntimeError",
                                     NoProviderMessage(cache_key), PyNone, "")
                  /\ UNCHANGED <<call_count, tasks>>
             [] decision = "call" ->
                  /\ CallsMade < MaxCalls
                  /\ call_count' = [call_count EXCEPT ![self.real_provider] = @ + 1]
                  /\ tasks' = [tasks EXCEPT ![t] =
                         [pc |-> "awaiting", d |-> d, op |-> op, a |-> a, key |-> cache_key,
                          n |-> call_count[self.real_provider] + 1]]
                  /\ UNCHANGED last
        /\ UNCHANGED <<disp, files, lifecycle>>

\* variant: the result is returned without being saved
BackendReturnNoSave(t, response) ==
    /\ tasks[t].pc = "awaiting"
    /\ dirs' = dirs \cup MkdirParents(disp[tasks[t].d])
    /\ tasks' = [tasks EXCEPT ![t] = IdleTask]
    /\ last' = Outcome(tasks[t].d, tasks[t].op, tasks[t].a, tasks[t].key, "return", "",
                       response, "backend")
    /\ UNCHANGED <<disp, files, call_count, lifecycle>>

\* variant: a record that is already there is kept, the first write wins
BackendReturnKeepFirst(t, response) ==
    LET self == disp[tasks[t].d]
        cache_key == tasks[t].key
        cache_path == GetCachePath(self, cache_key)
    IN  /\ tasks[t].pc = "awaiting"
        /\ dirs' = dirs \cup MkdirParents(self)
        /\ files' = [p \in DOMAIN files \cup {cache_path} |->
                        IF p \in DOMAIN files THEN files[p]
                        ELSE CacheData(self, cache_key, response)]
        /\ tasks' = [tasks EXCEPT ![t] = IdleTask]
        /\ last' = Outcome(tasks[t].d, tasks[t].op, tasks[t].a, cache_key, "return", "",
                           response, "backend")
        /\ UNCHANGED <<disp, call_count, lifecycle>>

\* variant: the put yields to other invokes after it has opened the file for
\* writing, so the file is cut off while the invoke is still in its put
BackendReturnYieldsInPut(t, response) ==
    LET self == disp[tasks[t].d]
        cache_key == tasks[t].key
        cache_path == GetCachePath(self, cache_key)
    IN  /\ tasks[t].pc = "awaiting"
        /\ dirs' = dirs \cup MkdirParents(self)
        /\ IF cache_path \in DOMAIN files /\ ~Parses(files[cache_path])
           THEN /\ files' = [files EXCEPT ![cache_path] = CacheData(self, cache_key, response)]
                /\ tasks' = [tasks EXCEPT ![t] = IdleTask]
                /\ last' = Outcome(tasks[t].d, tasks[t].op, tasks[t].a, cache_key, "return", "",
                                   response, "backend")
           ELSE /\ files' = [p \in DOMAIN files \cup {cache_path} |->
                               IF p = cache_path THEN Unparseable ELSE files[p]]
                /\ UNCHANGED <<tasks, last>>
        /\ UNCHANGED <<disp, call_count, lifecycle>>

\* variant: the store keeps the latest record only, a put drops the others
BackendReturnSingleSlot(t, response) ==
    LET self == disp[tasks[t].d]
        cache_key == tasks[t].key
        cache_path == GetCachePath(self, cache_key)
    IN  /\ tasks[t].pc = "awaiting"
        /\ dirs' = dirs \cup MkdirParents(self)
        /\ files' = [p \in {cache_path} |-> CacheData(self, cache_key, response)]
        /\ tasks' = [tasks EXCEPT ![t] = IdleTask]
        /\ last' = Outcome(tasks[t].d, tasks[t].op, tasks[t].a, cache_key, "return", "",
                           response, "backend")
        /\ UNCHANGED <<disp, call_count, lifecycle>>

\* the awaited backend call returns: _save_to_cache, then return response
BackendReturn(t, response) ==
    LET self == disp[tasks[t].d]
        cache_key == tasks[t].key
        cache_path == GetCachePath(self, cache_key)
    IN  /\ tasks[t].pc = "awaiting"
        /\ dirs' = dirs \cup MkdirParents(self)
        /\ files' = [p \in DOMAIN files \cup {cache_path} |->
                        IF p = cache_path THEN CacheData(self, cache_key, response) ELSE files[p]]
        /\ tasks' = [tasks EXCEPT ![t] = IdleTask]
        /\ last' = Outcome(tasks[t].d, tasks[t].op, tasks[t].a, cache_key, "return", "",
                           response, "backend")
        /\ UNCHANGED <<disp, call_count, lifecycle>>

\* variant: the failure is caught and saved as if it were a result
BackendRaiseCached(t, error) ==
    LET self == disp[tasks[t].d]
        cache_path == GetCachePath(self, tasks[t].key)
    IN  /\ tasks[t].pc = "awaiting"
        /\ dirs' = dirs \cup MkdirParents(self)
        /\ files' = [p \in DOMAIN files \cup {cache_path} |->
                        IF p = cache_path THEN CacheData(self, tasks[t].key, PyStr(error))
                        ELSE files[p]]
        /\ tasks' = [tasks EXCEPT ![t] = IdleTask]
        /\ last' = Outcome(tasks[t].d, tasks[t].op, tasks[t].a, tasks[t].key, error,
                           "raised by the real provider", PyNone, "backend")
        /\ UNCHANGED <<disp, call_count, lifecycle>>

\* variant: a failed backend call is made again
BackendRaiseRetries(t, error) ==
    LET self == disp[tasks[t].d]
    IN  /\ tasks[t].pc = "awaiting"
        /\ IF CallsMade < MaxCalls
           THEN /\ call_count' = [call_count EXCEPT ![self.real_provider] = @ + 1]
                /\ tasks' = [tasks EXCEPT ![t].n = call_count[self.real_provider] + 1]
                /\ UNCHANGED last
           ELSE /\ tasks' = [tasks EXCEPT ![t] = IdleTask]
                /\ last' = Outcome(tasks[t].d, tasks[t].op, tasks[t].a, tasks[t].key, error,
                                   "raised by the real provider", PyNone, "backend")
                /\ UNCHANGED call_count
        /\ UNCHANGED <<disp, dirs, files, lifecycle>>

\* the awaited backend call raises: the error propagates out of __acall__
BackendRaise(t, error) ==
    /\ tasks[t].pc = "awaiting"
    /\ tasks' = [tasks EXCEPT ![t] = IdleTask]
    /\ last' = Outcome(tasks[t].d, tasks[t].op, tasks[t].a, tasks[t].key, error,
                       "raised by the real provider", PyNone, "backend")
    /\ UNCHANGED <<disp, dirs, files, call_count, lifecycle>>

\* the lifecycle entry points with the arguments callers pass
LifecycleCalls ==
    {<<"initialize", "">>, <<"shutdown", "">>,
     <<"register_model", "m1">>, <<"unregister_model", "m1">>}

LifecycleMade ==
    LET Sum(b) == lifecycle[b]["initialize"] + lifecycle[b]["shutdown"]
                    + lifecycle[b]["register_model"] + lifecycle[b]["unregister_model"]
    IN  Sum("b1") + Sum("b2") + Sum("b3") + Sum("b4") + Sum("b5") + Sum("b6")

\* what a lifecycle entry point gives its caller
PassthroughResult(name, a, forwards) ==
    IF name # "register_model" THEN PyNone
    ELSE IF forwards THEN RegisteredModel(a)
    ELSE PyStr(ArgTable(a).args[1].s)

\* variant: shutdown clears the cache of the dispatcher's store
PassthroughShutdownClears(t, d, name, a) ==
    LET self == disp[d]
        forwards == BackendHas(self.real_provider, name)
    IN  /\ EntryPoint(self.protocol, name) = "passthrough"
        /\ FreeSlot(t)
        /\ files' = IF name = "shutdown" THEN <<>> ELSE files
        /\ IF forwards
           THEN /\ LifecycleMade < MaxLifecycle
                /\ lifecycle' = [lifecycle EXCEPT ![self.real_provider][name] = @ + 1]
                /\ tasks' = [tasks EXCEPT ![t] =
                       [pc |-> "forwarding", d |-> d, op |-> name, a |-> a, key |-> "",
                        n |-> lifecycle[self.real_provider][name] + 1]]
                /\ UNCHANGED last
           ELSE /\ last' = Outcome(d, name, a, "", "return", "",
                                   PassthroughResult(name, a, FALSE), "noop")
                /\ UNCHANGED <<lifecycle, tasks>>
        /\ UNCHANGED <<disp, dirs, call_count>>

\* initialize, shutdown, register_model and unregister_model of ReplayProvider,
\* from the entry to the awaited operation of the backend, or to the end when
\* the backend has no operation of that name.  The name of a marked member is
\* not one of them: the class attribute of that name is the synthesized
\* method, which is __acall__ (Call).
Passthrough(t, d, name, a) ==
    LET self == disp[d]
        forwards == BackendHas(self.real_provider, name)
    IN  /\ EntryPoint(self.protocol, name) = "passthrough"
        /\ FreeSlot(t)
        /\ IF forwards
           THEN /\ LifecycleMade < MaxLifecycle
                /\ lifecycle' = [lifecycle EXCEPT ![self.real_provider][name] = @ + 1]
                /\ tasks' = [tasks EXCEPT ![t] =
                       [pc |-> "forwarding", d |-> d, op |-> name, a |-> a, key |-> "",
                        n |-> lifecycle[self.real_provider][name] + 1]]
                /\ UNCHANGED last
           ELSE /\ last' = Outcome(d, name, a, "", "return", "",
                                   PassthroughResult(name, a, FALSE), "noop")
                /\ UNCHANGED <<lifecycle, tasks>>
        /\ UNCHANGED <<disp, dirs, files, call_count>>

\* the awaited operation of the backend returns: the entry point returns what
\* it returned (register_model) or None
PassthroughReturn(t) ==
    /\ tasks[t].pc = "forwarding"
    /\ tasks' = [tasks EXCEPT ![t] = IdleTask]
    /\ last' = Outcome(tasks[t].d, tasks[t].op, tasks[t].a, "", "return", "",
                       PassthroughResult(tasks[t].op, tasks[t].a, TRUE), "passthrough")
    /\ UNCHANGED <<disp, dirs, files, call_count, lifecycle>>

\* the awaited operation of the backend raises: the error propagates out of
\* the entry point
PassthroughRaise(t, error) ==
    /\ tasks[t].pc = "forwarding"
    /\ tasks' = [tasks EXCEPT ![t] = IdleTask]
    /\ last' = Outcome(tasks[t].d, tasks[t].op, tasks[t].a, "", error,
                       "raised by the real provider", PyNone, "passthrough")
    /\ UNCHANGED <<disp, dirs, files, call_count, lifecycle>>

\* the steps of the lifecycle entry points: the entries, for the calls of cs,
\* and the ends
LifecycleEntries(cs) ==
    \E t \in 1..MaxTasks, d \in DOMAIN disp, c \in cs : Passthrough(t, d, c[1], c[2])

LifecycleEnds ==
    \/ \E t \in 1..MaxTasks : PassthroughReturn(t)
    \/ \E t \in 1..MaxTasks, error \in BackendErrors : PassthroughRaise(t, error)

Next ==
    \/ \E t \in 1..MaxTasks, d \in DOMAIN disp : \E i \in InvocationsOn(disp[d].protocol) :
         Call(t, d, i[1], i[2])
    \/ \E t \in 1..MaxTasks :
         /\ tasks[t].pc = "awaiting"
         /\ \E response \in BackendResults(disp[tasks[t].d].real_provider, tasks[t].a, tasks[t].n) :
              BackendReturn(t, response)
    \/ \E t \in 1..MaxTasks, error \in BackendErrors : BackendRaise(t, error)

Spec == Init /\ [][Next]_vars

\* a caller that awaits every invoke before it issues the next one
NoneSuspended == \A t \in 1..MaxTasks : tasks[t].pc = "idle"

\* no invoke is suspended at its backend call; no lifecycle call is
NoInvokeSuspended == \A t \in 1..MaxTasks : tasks[t].pc # "awaiting"
NoLifecycleSuspended == \A t \in 1..MaxTasks : tasks[t].pc # "forwarding"

NextSeq ==
    \/ \E t \in 1..MaxTasks, d \in DOMAIN disp : \E i \in InvocationsOn(disp[d].protocol) :
         NoneSuspended /\ Call(t, d, i[1], i[2])
    \/ \E t \in 1..MaxTasks :
         /\ tasks[t].pc = "awaiting"
         /\ \E response \in BackendResults(disp[tasks[t].d].real_provider, tasks[t].a, tasks[t].n) :
              BackendReturn(t, response)
    \/ \E t \in 1..MaxTasks, error \in BackendErrors : BackendRaise(t, error)

SpecSeq == Init /\ [][NextSeq]_vars

\* A cache root that already holds a file when the dispatchers are constructed:
\* a record of an earlier run or of an earlier version, or a damaged file.  The
\* file is at the path of completion(model_id='test-model', content='Hello
\* world') in the namespace of MockRealProvider.
StoreKinds == {"corrupt", "null", "drift", "badfield", "unreg", "empty"}

StoredResponse(kind) ==
    CASE kind = "null" -> JNull
      [] kind = "drift" -> JObject(<<F("text", S("old"))>>)
      [] kind = "badfield" -> JObject(<<F("completion_message", S("old"))>>)
      [] kind = "unreg" -> JObject(<<F("code", S("server_error")), F("message", S("old"))>>)
      [] kind = "empty" -> JString("")

StoredResponseType(kind) ==
    CASE kind = "null" -> "NoneType"
      [] kind = "drift" -> "ChatCompletionResponse"
      [] kind = "badfield" -> "ChatCompletionResponse"
      [] kind = "unreg" -> "OpenAIResponseError"
      [] kind = "empty" -> "str"

StoredFile(kind, cache_key) ==
    IF kind = "corrupt" THEN Unparseable
    ELSE [cache_key |-> cache_key,
          response |-> StoredResponse(kind),
          metadata |-> [provider_type |-> "MockRealProvider",
                        api_name |-> "MockInferenceProvider",
                        response_type |-> StoredResponseType(kind)]]

StoredKey == GenerateCacheKey(Constructed("fb"), "completion", "hello")
StoredPath == GetCachePath(Constructed("fb"), StoredKey)

InitStore ==
    \E kind \in StoreKinds : InitWith({"fb", "co"}, StoredPath :> StoredFile(kind, StoredKey))

SpecStore == InitStore /\ [][NextSeq]_vars

\* one caller that invokes operations and one that uses the lifecycle entry
\* points, each awaiting its call before it issues the next one
LifeDeployments == {{"fb", "co"}, {"fbOther"}, {"fbNone"}, {"fbModels"}}

InitLife == \E ds \in LifeDeployments : InitWith(ds, <<>>)

\* the invokes of a caller that awaits each of them, next to lifecycle calls
\* that may be suspended
InvokesInTurn ==
    \/ \E t \in 1..MaxTasks, d \in DOMAIN disp : \E i \in InvocationsOn(disp[d].protocol) :
         NoInvokeSuspended /\ Call(t, d, i[1], i[2])
    \/ \E t \in 1..MaxTasks :
         /\ tasks[t].pc = "awaiting"
         /\ \E response \in BackendResults(disp[tasks[t].d].real_provider, tasks[t].a, tasks[t].n) :
              BackendReturn(t, response)
    \/ \E t \in 1..MaxTasks, error \in BackendErrors : BackendRaise(t, error)

NextLife ==
    \/ InvokesInTurn
    \/ NoLifecycleSuspended /\ LifecycleEntries(LifecycleCalls)
    \/ LifecycleEnds

SpecLife == InitLife /\ [][NextLife]_vars

\* callers whose backends return plain values (b4) or a plain mapping (b1),
\* awaiting every call
InitEncode == InitWith({"fbPlain", "coPlain", "fb"}, <<>>)

SpecEncode == InitEncode /\ [][NextSeq]_vars

\* Dispatchers without a backend on cache roots that may hold records put
\* there out of band, in the NoProvider namespace, next to a dispatcher with
\* a backend.  One of the files sits where the key of the undeclared
\* operation name would be.
NoProviderRecord(cache_key) ==
    [cache_key |-> cache_key,
     response |-> JString("old"),
     metadata |-> [provider_type |-> "NoProvider",
                   api_name |-> "MockInferenceProvider",
                   response_type |-> "str"]]

OutOfBandCalls ==
    {<<"fbNone", "completion", "hello">>, <<"coNone", "completion", "hello">>,
     <<"fbNone", "bogus", "hello">>}

OutOfBandStore(cs) ==
    [p \in {GetCachePath(Constructed(c[1]), GenerateCacheKey(Constructed(c[1]), c[2], c[3])) :
              c \in cs} |->
        NoProviderRecord(
            LET c == CHOOSE x \in cs :
                        p = GetCachePath(Constructed(x[1]),
                                         GenerateCacheKey(Constructed(x[1]), x[2], x[3]))
            IN  GenerateCacheKey(Constructed(c[1]), c[2], c[3]))]

InitNoBackend ==
    \E cs \in SUBSET OutOfBandCalls : InitWith({"fbNone", "coNone", "fb"}, OutOfBandStore(cs))

SpecNoBackend == InitNoBackend /\ [][NextSeq]_vars

\* what open(cache_path, "w") and the write into it can raise: the open is
\* refused, or the device is full once the file has been created
StoreFaults == {"PermissionError", "OSError"}

\* variant: a failure of the write is swallowed and the result is returned
SaveFailsSwallowed(t, response, fault) ==
    LET self == disp[tasks[t].d]
        cache_path == GetCachePath(self, tasks[t].key)
    IN  /\ tasks[t].pc = "awaiting"
        /\ dirs' = dirs \cup MkdirParents(self)
        /\ files' = IF fault = "OSError"
                     THEN [p \in DOMAIN files \cup {cache_path} |->
                              IF p = cache_path THEN Unparseable ELSE files[p]]
                     ELSE files
        /\ tasks' = [tasks EXCEPT ![t] = IdleTask]
        /\ last' = Outcome(tasks[t].d, tasks[t].op, tasks[t].a, tasks[t].key, "return", "",
                           response, "backend")
        /\ UNCHANGED <<disp, call_count, lifecycle>>

\* the awaited backend call returns and _save_to_cache raises: the error leaves
\* __acall__ in place of the response.  A refused open leaves the store as it
\* was; a full device leaves the file that the open created, cut off.
SaveFails(t, response, fault) ==
    LET self == disp[tasks[t].d]
        cache_path == GetCachePath(self, tasks[t].key)
    IN  /\ tasks[t].pc = "awaiting"
        /\ dirs' = dirs \cup MkdirParents(self)
        /\ files' = IF fault = "OSError"
                     THEN [p \in DOMAIN files \cup {cache_path} |->
                              IF p = cache_path THEN Unparseable ELSE files[p]]
                     ELSE files
        /\ tasks' = [tasks EXCEPT ![t] = IdleTask]
        /\ last' = Outcome(tasks[t].d, tasks[t].op, tasks[t].a, tasks[t].key, fault,
                           "raised by the store", PyNone, "store")
        /\ UNCHANGED <<disp, call_count, lifecycle>>

\* callers on a store whose writes can fail, awaiting every call
InitFault == InitWith({"fb", "co"}, <<>>)

NextFault ==
    \/ NextSeq
    \/ \E t \in 1..MaxTasks :
         /\ tasks[t].pc = "awaiting"
         /\ \E response \in BackendResults(disp[tasks[t].d].real_provider, tasks[t].a, tasks[t].n),
               fault \in StoreFaults :
              SaveFails(t, response, fault)

SpecFault == InitFault /\ [][NextFault]_vars

\* callers of dispatchers without a backend, next to a dispatcher whose
\* backend is an object that is false in a boolean context
InitEmpty == InitWith({"fbNone", "coNone", "fbEmpty"}, <<>>)

SpecEmpty == InitEmpty /\ [][NextSeq]_vars

\* get_replay_provider_impl (replay.py).  The mode strings a configuration
\* can hold: the two documented ones, the value of ReplayMode.CACHE_WITH_FALLBACK
\* and a misspelling.
ModeStrings == {"cache_only", "cache_with_fallback", "fallback", "CACHE_ONLY"}

\* api_protocol_map(): the interface of every API of the stack
ApiProtocolMap ==
    [api \in {"inference", "models"} |->
        IF api = "inference" THEN MockInferenceProvider ELSE MockModelsProvider]

Apis == {"inference", "eval"}

\* the inner implementations handed to the factory, for config.real_provider_id
\* = "fireworks": no implementation under that id, or a backend object
ImplCases == {"absent", "present"}

InnerImpls(case) ==
    CASE case = "absent" -> [id \in {"together"} |-> "b2"]
      [] case = "present" -> [id \in {"fireworks", "together"} |-> IF id = "fireworks" THEN "b1" ELSE "b2"]

ReplayProviderConfig(mode) ==
    [real_provider_id |-> "fireworks", mode |-> mode, cache_dir |-> "root"]

\* variant: the mode string is looked up among the values of ReplayMode
ConfiguredModeByValue(mode) ==
    IF mode = "cache_only" THEN "CACHE_ONLY"
    ELSE IF mode = "fallback" THEN "CACHE_WITH_FALLBACK"
    ELSE "ValueError"

\* ReplayMode.CACHE_ONLY if config.mode == "cache_only" else CACHE_WITH_FALLBACK
ConfiguredMode(mode) ==
    IF mode = "cache_only" THEN "CACHE_ONLY" ELSE "CACHE_WITH_FALLBACK"

NotBuilt == NewDispatcher("None", "", "", MockInferenceProvider)

\* variant: a missing backend is accepted in every mode
GetReplayProviderImplLenient(api, config, inner_impls) ==
    LET real_provider == IF config.real_provider_id \in DOMAIN inner_impls
                         THEN inner_impls[config.real_provider_id] ELSE "None"
    IN  IF api \notin DOMAIN ApiProtocolMap
        THEN [out |-> "ValueError", msg |-> "Unknown API: " \o api, impl |-> NotBuilt]
        ELSE [out |-> "return", msg |-> "",
              impl |-> NewDispatcher(real_provider, ConfiguredMode(config.mode),
                                     config.cache_dir, ApiProtocolMap[api])]

\* what the factory gives its caller: a ValueError or the dispatcher it built
GetReplayProviderImpl(api, config, inner_impls) ==
    LET real_provider == IF config.real_provider_id \in DOMAIN inner_impls
                         THEN inner_impls[config.real_provider_id] ELSE "None"
    IN  IF config.real_provider_id \notin DOMAIN inner_impls /\ config.mode # "cache_only"
        THEN [out |-> "ValueError",
              msg |-> "Real provider '" \o config.real_provider_id
                        \o "' not found in inner implementations",
              impl |-> NotBuilt]
        ELSE IF api \notin DOMAIN ApiProtocolMap
        THEN [out |-> "ValueError", msg |-> "Unknown API: " \o api, impl |-> NotBuilt]
        ELSE [out |-> "return", msg |-> "",
              impl |-> NewDispatcher(real_provider, ConfiguredMode(config.mode),
                                     config.cache_dir, ApiProtocolMap[api])]

\* the calls of the factory: the API, the mode string of the configuration and
\* the case of the inner implementations; a built dispatcher goes by the name
\* of its call
FactoryCalls == Apis \X ModeStrings \X ImplCases

FactoryNameTable == [c \in FactoryCalls |-> c[1] \o ":" \o c[2] \o ":" \o c[3]]
FactoryName(c) == FactoryNameTable[c]

\* a caller runs the factory and keeps the dispatcher it returns
Build(c) ==
    LET r == GetReplayProviderImpl(c[1], ReplayProviderConfig(c[2]), InnerImpls(c[3]))
    IN  /\ NoneSuspended
        /\ Cardinality(DOMAIN disp) < MaxBuilt
        /\ FactoryName(c) \notin DOMAIN disp
        /\ disp' = IF r.out = "return"
                    THEN [x \in DOMAIN disp \cup {FactoryName(c)} |->
                             IF x = FactoryName(c) THEN r.impl ELSE disp[x]]
                    ELSE disp
        /\ last' = Outcome(FactoryName(c), "get_replay_provider_impl", "", "", r.out, r.msg,
                           PyNone, "factory")
        /\ UNCHANGED <<dirs, files, call_count, lifecycle, tasks>>

\* callers that get their dispatchers from the factory, awaiting every call
InitFactory == InitWith({}, <<>>)

NextFactory ==
    \/ NextSeq
    \/ \E c \in FactoryCalls : Build(c)

SpecFactory == InitFactory /\ [][NextFactory]_vars

\* ReplayProvider.__init__ on a cache root that is in use: one more dispatcher
\* joins the run; the root directory is there already and nothing in it is
\* touched
NewInstance(d) ==
    /\ d \notin DOMAIN disp
    /\ disp' = [x \in DOMAIN disp \cup {d} |-> Constructed(x)]
    /\ UNCHANGED <<dirs, files, call_count, lifecycle, tasks, last>>

\* Callers that construct dispatchers on a store with a record of an earlier
\* run, invoke them and shut them down while an invoke is suspended.
LateDispatchers == {"co"}

InitPermanent ==
    \E kind \in {"null", "drift"} : InitWith({"fb"}, StoredPath :> StoredFile(kind, StoredKey))

NextPermanent ==
    \/ InvokesInTurn
    \/ NoLifecycleSuspended /\ LifecycleEntries({<<"shutdown", "">>})
    \/ LifecycleEnds
    \/ \E d \in LateDispatchers : NewInstance(d)

SpecPermanent == InitPermanent /\ [][NextPermanent]_vars

-----------------------------------------------------------------------------
(* Steps, as the properties below name them *)

\* this step is the entry of a lifecycle entry point that forwards to the
\* backend
IsForwarding == \E t \in 1..MaxTasks : tasks[t].pc = "idle" /\ tasks'[t].pc = "forwarding"

\* this step is the return of a lifecycle entry point from the backend
IsPassthroughEnd == \E t \in 1..MaxTasks : tasks[t].pc = "forwarding" /\ tasks'[t].pc = "idle"

\* this step is the entry of a lifecycle entry point that ran as a passthrough
IsPassthrough ==
    \/ IsForwarding
    \/ tasks' = tasks /\ last' # last /\ last'.via = "noop"

\* this step is an invoke that ended without suspending
EndsAtOnce == tasks' = tasks /\ last' # last /\ last'.via \notin {"passthrough", "noop"}

\* this step is an invoke that suspended at the backend call
IsSuspension == \E t \in 1..MaxTasks : tasks[t].pc = "idle" /\ tasks'[t].pc = "awaiting"

\* this step is the entry of an invoke
IsEntry == EndsAtOnce \/ IsSuspension

\* the dispatcher, operation and arguments of the invoke entered in this step
Entry ==
    IF EndsAtOnce THEN [d |-> last'.d, op |-> last'.op, a |-> last'.a]
    ELSE LET t == CHOOSE u \in 1..MaxTasks : tasks[u].pc = "idle" /\ tasks'[u].pc = "awaiting"
         IN  [d |-> tasks'[t].d, op |-> tasks'[t].op, a |-> tasks'[t].a]

\* this step is the resumption of an invoke after its backend call
IsResumption == \E t \in 1..MaxTasks : tasks[t].pc = "awaiting" /\ tasks'[t].pc = "idle"

\* the invoke the previous outcome belongs to
LastInvoke == [d |-> last.d, op |-> last.op, a |-> last.a]

\* the key and the record path every constructed dispatcher computes for every
\* operation name and argument set, evaluated once
KeyTable ==
    [d \in DispatcherNames |-> [op \in OpNames |-> [a \in ArgIds |->
        GenerateCacheKey(Constructed(d), op, a)]]]

PathTable ==
    [d \in DispatcherNames |-> [op \in OpNames |-> [a \in ArgIds |->
        GetCachePath(Constructed(d), KeyTable[d][op][a])]]]

KeyOf(d, op, a) == KeyTable[d][op][a]
PathOf(d, op, a) == PathTable[d][op][a]

NumFiles == Cardinality(DOMAIN files)

\* the names of the members of an interface that carry the webmethod marker
MarkedNames(protocol) == {m.name : m \in {x \in protocol.members : x.webmethod}}

\* this step is a call of one of the dispatcher's entry points initialize,
\* shutdown, register_model, unregister_model, whichever method the class has
\* under that name
IsLifecycleCall == IsPassthrough \/ (IsEntry /\ Entry.op \in LifecycleOps)

LifecycleCall ==
    IF IsForwarding
    THEN LET t == CHOOSE u \in 1..MaxTasks : tasks[u].pc = "idle" /\ tasks'[u].pc = "forwarding"
         IN  [d |-> tasks'[t].d, op |-> tasks'[t].op, a |-> tasks'[t].a]
    ELSE IF IsPassthrough THEN [d |-> last'.d, op |-> last'.op, a |-> last'.a]
    ELSE Entry

\* how often the operation of that name of a backend object was invoked, by a
\* passthrough or by __acall__ (register_model is the one operation routed to b3)
BackendInvocations(passthroughs, routed, b, name) ==
    passthroughs[b][name] + (IF b = "b3" /\ name = "register_model" THEN routed[b] ELSE 0)

-----------------------------------------------------------------------------
(* Properties *)

\* C1 - Hit suppresses backend call: in either mode, an invoke of a routed
\* operation that finds a record at its key (a file that parses, whatever the
\* record holds and whoever wrote it) returns the decoded record at once and
\* leaves every backend call counter unchanged.
HitSuppressesBackend ==
    [][(/\ IsEntry
        /\ Entry.op \in disp[Entry.d].routes
        /\ PathOf(Entry.d, Entry.op, Entry.a) \in DOMAIN files
        /\ Parses(files[PathOf(Entry.d, Entry.op, Entry.a)]))
       => /\ EndsAtOnce
          /\ last'.out = "return"
          /\ last'.via = "cache"
          /\ last'.val = DecodeRecord(files[PathOf(Entry.d, Entry.op, Entry.a)])
          /\ call_count' = call_count]_vars

\* C2 - Miss-then-hit counts: under CACHE_WITH_FALLBACK with a backend, in a
\* sequential run, an invoke that finds no record calls the backend exactly
\* once and, when it returns, has added exactly one file; an identical invoke
\* right after a returned one changes neither the counter nor the files.
MissThenHitCounts ==
    [][/\ (/\ IsEntry
           /\ disp[Entry.d].mode = "CACHE_WITH_FALLBACK"
           /\ disp[Entry.d].real_provider # "None"
           /\ Entry.op \in disp[Entry.d].routes
           /\ PathOf(Entry.d, Entry.op, Entry.a) \notin DOMAIN files)
          => /\ IsSuspension
             /\ call_count' = [call_count EXCEPT ![disp[Entry.d].real_provider] = @ + 1]
             /\ files' = files
       /\ (IsResumption /\ last'.out = "return")
          => /\ Cardinality(DOMAIN files') = NumFiles + 1
             /\ PathOf(last'.d, last'.op, last'.a) \in DOMAIN files'
             /\ call_count' = call_count
       /\ (/\ IsEntry
           /\ last.out = "return"
           /\ disp[last.d].mode = "CACHE_WITH_FALLBACK"
           /\ Entry = LastInvoke)
          => /\ call_count' = call_count
             /\ files' = files
             /\ last'.via = "cache"]_vars

\* the second of two identical invokes: one backend call, one file, a hit
MissThenHitWitness ==
    /\ last.d = "fb" /\ last.via = "cache"
    /\ call_count["b1"] = 1
    /\ NumFiles = 1

\* C3 - Replayed result equals recorded result: under CACHE_WITH_FALLBACK the
\* value a hit returns equals the value the backend-served invoke of the same
\* call returned just before it.
ReplayedEqualsRecorded ==
    [][(/\ EndsAtOnce
        /\ last'.via = "cache"
        /\ last.via = "backend" /\ last.out = "return"
        /\ disp[last.d].mode = "CACHE_WITH_FALLBACK"
        /\ Entry = LastInvoke)
       => last'.val = last.val]_vars

\* C4 - Mode enforcement: under CACHE_ONLY an invoke whose key has no record
\* fails with the cache-miss error naming the key and the mode, calls no
\* backend and writes nothing, even when a backend is configured.
ModeEnforcement ==
    [][(/\ IsEntry
        /\ disp[Entry.d].mode = "CACHE_ONLY"
        /\ Entry.op \in disp[Entry.d].routes
        /\ PathOf(Entry.d, Entry.op, Entry.a) \notin DOMAIN files)
       => /\ EndsAtOnce
          /\ last'.out = "RuntimeError"
          /\ last'.msg = "Cache miss for " \o KeyOf(Entry.d, Entry.op, Entry.a)
                            \o " and mode is CACHE_ONLY"
          /\ call_count' = call_count
          /\ files' = files]_vars

\* a CACHE_ONLY dispatcher with a backend has failed on an empty cache
ModeEnforcementWitness ==
    /\ last.d \in DOMAIN disp
    /\ disp[last.d].mode = "CACHE_ONLY"
    /\ disp[last.d].real_provider # "None"
    /\ last.out = "RuntimeError"
    /\ files = <<>>
    /\ CallsMade = 0

\* C5 - Key discrimination: under CACHE_WITH_FALLBACK from an empty cache, two
\* invokes of one operation with different arguments make two backend calls
\* and two files; the second is not served from the first one's record.
KeyDiscrimination ==
    [][/\ (/\ IsEntry
           /\ NumFiles = 1 /\ CallsMade = 1
           /\ last.via = "backend" /\ last.out = "return"
           /\ disp[last.d].mode = "CACHE_WITH_FALLBACK"
           /\ Entry.d = last.d /\ Entry.op = last.op
           /\ ~SameArguments(Entry.a, last.a))
          => /\ IsSuspension
             /\ CallsMade' = 2
       /\ (/\ IsResumption /\ last'.out = "return"
           /\ NumFiles = 1 /\ CallsMade = 2)
          => Cardinality(DOMAIN files') = 2]_vars

\* C6 - Key determinism: the key an invoke computed equals the key any
\* dispatcher over the same interface and backend type computes for the same
\* operation and arguments, whatever its mode, its cache directory and the
\* cache contents at the time.
KeyOfRecordedInvoke(r) ==
    r.key # "" =>
        \A d2 \in DispatcherNames :
            (/\ Constructed(d2).protocol = disp[r.d].protocol
             /\ ProviderType(Constructed(d2)) = ProviderType(disp[r.d]))
            => KeyOf(d2, r.op, r.a) = r.key

KeyDeterminism ==
    /\ KeyOfRecordedInvoke(last)
    /\ \A t \in 1..MaxTasks : KeyOfRecordedInvoke(tasks[t])

\* a key computed by the CACHE_ONLY dispatcher on root2, which has a
\* CACHE_WITH_FALLBACK counterpart on root
KeyDeterminismWitness ==
    /\ last.d = "coNone"
    /\ last.key # ""
    /\ KeyOf("fbNone", last.op, last.a) = last.key

\* C7 - Record-then-replay across dispatchers: after a CACHE_WITH_FALLBACK
\* dispatcher has recorded a call, a CACHE_ONLY dispatcher over the same
\* interface, backend type and cache root serves the same call from the
\* cache without calling the backend.
RecordThenReplay ==
    [][(/\ IsEntry
        /\ last.via = "backend" /\ last.out = "return"
        /\ disp[last.d].mode = "CACHE_WITH_FALLBACK"
        /\ disp[Entry.d].mode = "CACHE_ONLY"
        /\ disp[Entry.d].protocol = disp[last.d].protocol
        /\ ProviderType(disp[Entry.d]) = ProviderType(disp[last.d])
        /\ disp[Entry.d].cache_dir = disp[last.d].cache_dir
        /\ Entry.op = last.op /\ Entry.a = last.a)
       => /\ EndsAtOnce
          /\ last'.out = "return"
          /\ last'.via = "cache"
          /\ call_count' = call_count]_vars

\* the CACHE_ONLY dispatcher has served a call that the backend saw once
RecordThenReplayWitness ==
    /\ last.d = "co"
    /\ last.out = "return" /\ last.via = "cache"
    /\ call_count["b1"] = 1

\* C8 - Backend failure is not cached: when the awaited backend call raises,
\* the invoke ends with that error and writes nothing; in a sequential run
\* the next identical invoke misses again and calls the backend again.
BackendFailureNotCached ==
    [][/\ (IsResumption /\ last'.out # "return")
          => /\ last'.out \in BackendErrors
             /\ last'.via = "backend"
             /\ files' = files
             /\ call_count' = call_count
       /\ (/\ IsEntry
           /\ last.via = "backend" /\ last.out \in BackendErrors
           /\ Entry = LastInvoke)
          => /\ IsSuspension
             /\ PathOf(Entry.d, Entry.op, Entry.a) \notin DOMAIN files
             /\ call_count' = [call_count EXCEPT ![disp[Entry.d].real_provider] = @ + 1]]_vars

\* the backend has failed twice for the same call and nothing was written
BackendFailureNotCachedWitness ==
    /\ last.out \in BackendErrors
    /\ call_count["b1"] = 2
    /\ files = <<>>

\* C9 - No-backend failure: under CACHE_WITH_FALLBACK with no backend, an
\* invoke whose key has no record fails with the no-backend error and writes
\* nothing.
NoBackendFailure ==
    [][(/\ IsEntry
        /\ disp[Entry.d].mode = "CACHE_WITH_FALLBACK"
        /\ disp[Entry.d].real_provider = "None"
        /\ Entry.op \in disp[Entry.d].routes
        /\ PathOf(Entry.d, Entry.op, Entry.a) \notin DOMAIN files)
       => /\ EndsAtOnce
          /\ last'.out = "RuntimeError"
          /\ last'.msg = "Cache miss for " \o KeyOf(Entry.d, Entry.op, Entry.a)
                            \o " and no real provider available"
          /\ files' = files
          /\ call_count' = call_count]_vars

\* the dispatcher without a backend has failed while the store holds a record
NoBackendFailureWitness ==
    /\ last.d = "fbNone"
    /\ last.out = "RuntimeError"
    /\ NumFiles = 1

\* C10 - Unknown operation is rejected first: an invoke with a name outside
\* routes fails with the unknown-operation error; no key is computed, no
\* directory is made, no file is written and no backend is called.
UnknownOperationFirst ==
    [][(IsEntry /\ Entry.op \notin disp[Entry.d].routes)
       => /\ EndsAtOnce
          /\ last'.out = "AttributeError"
          /\ last'.msg = "Unknown method: " \o Entry.op
          /\ last'.key = ""
          /\ dirs' = dirs
          /\ files' = files
          /\ call_count' = call_count]_vars

\* an unknown operation was rejected and the cache root has no directory yet
UnknownOperationFirstWitness ==
    /\ last.op = "bogus"
    /\ last.out = "AttributeError"
    /\ dirs = {}

\* C11 - Namespace segregation: a record written through one dispatcher never
\* changes what a lookup gives a dispatcher over the same interface and cache
\* root whose backend is another implementation or is absent, for any
\* operation and arguments; and every hit returns a record that was written
\* in the namespace of the provider_type of the dispatcher that serves it.
NamespaceSegregation ==
    [][/\ (IsResumption /\ last'.out = "return")
          => \A d \in DOMAIN disp :
               (/\ disp[d].protocol = disp[last'.d].protocol
                /\ disp[d].cache_dir = disp[last'.d].cache_dir
                /\ disp[d].real_provider # disp[last'.d].real_provider)
               => \A i \in InvocationsOn(disp[d].protocol) :
                     LoadFromCache(disp[d], KeyOf(d, i[1], i[2]), files')
                       = LoadFromCache(disp[d], KeyOf(d, i[1], i[2]), files)
       /\ (EndsAtOnce /\ last'.via = "cache")
          => files[PathOf(Entry.d, Entry.op, Entry.a)].metadata.provider_type
               = ProviderType(disp[Entry.d])]_vars

\* C12 - Derived-key invariant: every record file a step writes or rewrites
\* has a cache_key field equal to the key recomputed from the operation and
\* arguments of the invoke that wrote it, and the name of every record file
\* in the store is its cache_key followed by ".json".
DerivedKey ==
    [][/\ \A p \in DOMAIN files' :
            (p \notin DOMAIN files \/ files'[p] # files[p])
            => /\ IsResumption
               /\ files'[p].cache_key = GenerateCacheKey(disp[last'.d], last'.op, last'.a)
       /\ \A p \in DOMAIN files' : p[Len(p)] = files'[p].cache_key \o ".json"]_vars

\* two records of two different calls are in the store
DerivedKeyWitness ==
    /\ NumFiles = 2
    /\ last.via = "backend" /\ last.out = "return"
    /\ files[PathOf(last.d, last.op, last.a)].cache_key = last.key

\* C13 - Concurrent duplicate misses: under CACHE_WITH_FALLBACK an invoke that
\* looks up a key while another invoke for the same key is suspended at the
\* backend and nothing is written yet also calls the backend, so the counter
\* has grown by 2 while both are suspended; every returning invoke writes,
\* and after its write exactly one file holds the key, with the record of
\* that write: the second write wins.
ConcurrentDuplicateMisses ==
    [][/\ (/\ IsEntry
           /\ Entry.op \in disp[Entry.d].routes
           /\ PathOf(Entry.d, Entry.op, Entry.a) \notin DOMAIN files
           /\ \E u \in 1..MaxTasks :
                 /\ tasks[u].pc = "awaiting"
                 /\ tasks[u].d = Entry.d
                 /\ tasks[u].key = KeyOf(Entry.d, Entry.op, Entry.a))
          => /\ IsSuspension
             /\ call_count' = [call_count EXCEPT ![disp[Entry.d].real_provider] = @ + 1]
             /\ call_count'[disp[Entry.d].real_provider] >= 2
       /\ (IsResumption /\ last'.out = "return")
          => /\ files'[PathOf(last'.d, last'.op, last'.a)]
                  = CacheData(disp[last'.d], last'.key, last'.val)
             /\ Cardinality({p \in DOMAIN files' : files'[p].cache_key = last'.key}) = 1
             /\ \A p \in DOMAIN files : files'[p].cache_key # last'.key => files'[p] = files[p]]_vars

\* both invokes of one call were suspended together; the one that called the
\* backend second has written its record, the first one has then overwritten it
ConcurrentDuplicateMissesWitness ==
    /\ NoneSuspended
    /\ call_count["b1"] = 2
    /\ last.via = "backend" /\ last.out = "return"
    /\ last.val = MockCompletion(last.a, 1)
    /\ NumFiles = 1
    /\ files[PathOf(last.d, last.op, last.a)] = CacheData(disp[last.d], last.key, last.val)

\* C15 - Decode degrades to raw: when the file at the key's path parses and
\* its response_type is not in the decode registry or the registered type
\* cannot be constructed from the stored value, the invoke returns the
\* stored raw value as a hit, in both modes, without calling the backend and
\* without writing.
DecodeDegradesToRaw ==
    [][(/\ IsEntry
        /\ Entry.op \in disp[Entry.d].routes
        /\ PathOf(Entry.d, Entry.op, Entry.a) \in DOMAIN files
        /\ LET record == files[PathOf(Entry.d, Entry.op, Entry.a)]
           IN  /\ Parses(record)
               /\ \/ record.metadata.response_type \notin DecodeRegistry
                  \/ ~CanConstruct(record.metadata.response_type, JsonToPy(record.response)))
       => /\ EndsAtOnce
          /\ last'.out = "return"
          /\ last'.via = "cache"
          /\ last'.val = JsonToPy(files[PathOf(Entry.d, Entry.op, Entry.a)].response)
          /\ call_count' = call_count
          /\ files' = files]_vars

\* C16 - Corrupt record is a hard error: when a file exists at the key's path
\* and does not parse, the invoke fails with the propagated parse error in
\* both modes; it is not a miss: no cache-miss error, no backend call, and
\* the file stays as it is.
CorruptRecordIsHardError ==
    [][(/\ IsEntry
        /\ Entry.op \in disp[Entry.d].routes
        /\ PathOf(Entry.d, Entry.op, Entry.a) \in DOMAIN files
        /\ ~Parses(files[PathOf(Entry.d, Entry.op, Entry.a)]))
       => /\ EndsAtOnce
          /\ last'.out = "JSONDecodeError"
          /\ last'.via = ""
          /\ call_count' = call_count
          /\ files' = files]_vars

\* the CACHE_WITH_FALLBACK dispatcher has failed on the damaged file, which is
\* still there, and its backend was never called
CorruptRecordIsHardErrorWitness ==
    /\ last.d = "fb"
    /\ last.out = "JSONDecodeError"
    /\ StoredPath \in DOMAIN files
    /\ files[StoredPath] = Unparseable
    /\ call_count["b1"] = 0

\* C17 - Lifecycle passthroughs are never cached: a call of the dispatcher's
\* initialize, shutdown, register_model or unregister_model invokes the
\* backend's operation of that name exactly once when the backend has it, is
\* a no-op otherwise (register_model then returns its argument), and neither
\* reads nor writes the cache store, for every wrapped interface.
LifecycleNeverCached ==
    [][/\ IsLifecycleCall
          => LET self == disp[LifecycleCall.d]
                 name == LifecycleCall.op
             IN  /\ BackendHas(self.real_provider, name)
                    => BackendInvocations(lifecycle', call_count', self.real_provider, name)
                         = BackendInvocations(lifecycle, call_count, self.real_provider, name) + 1
                 /\ ~BackendHas(self.real_provider, name)
                    => /\ lifecycle' = lifecycle
                       /\ call_count' = call_count
                       /\ name = "register_model"
                            => last'.val = PyStr(ArgTable(LifecycleCall.a).args[1].s)
                 /\ dirs' = dirs
                 /\ files' = files
       /\ IsPassthroughEnd
          => /\ lifecycle' = lifecycle /\ call_count' = call_count
             /\ dirs' = dirs /\ files' = files
       /\ (IsResumption /\ last'.op \in LifecycleOps) => files' = files]_vars

\* C18 - Cache-only isolation: no call on a CACHE_ONLY dispatcher, of a cached
\* operation or of a lifecycle entry point, invokes any operation of a real
\* backend object.
CacheOnlyIsolation ==
    [][(\/ IsPassthrough /\ disp[LifecycleCall.d].mode = "CACHE_ONLY"
        \/ IsEntry /\ disp[Entry.d].mode = "CACHE_ONLY")
       => /\ call_count' = call_count
          /\ lifecycle' = lifecycle]_vars

\* C19 - Key is independent of keyword order: an invoke that passes the same
\* named arguments with equal values as the invoke recorded just before it,
\* in whatever keyword order, computes the same key and is a hit on that
\* record.
KeywordOrderIndependence ==
    [][(/\ IsEntry
        /\ last.via = "backend" /\ last.out = "return"
        /\ Entry.d = last.d /\ Entry.op = last.op
        /\ SameArguments(Entry.a, last.a))
       => /\ KeyOf(Entry.d, Entry.op, Entry.a) = last.key
          /\ EndsAtOnce
          /\ last'.via = "cache"
          /\ call_count' = call_count]_vars

\* C20 - Capability descriptor: for every dispatcher, the class built for its
\* interface has a caching entry point under a name exactly when the
\* interface has a member of that name that carries the webmethod marker,
\* and has initialize and shutdown; routes has exactly the marked names as
\* keys, and the dispatcher is in every state as it was constructed.
CapabilityDescriptor ==
    \A d \in DOMAIN disp :
        LET protocol == disp[d].protocol
        IN  /\ disp[d].routes = MarkedNames(protocol)
            /\ \A name \in OpNames \cup LifecycleOps \cup {m.name : m \in protocol.members} :
                  EntryPoint(protocol, name) = "cached" <=> name \in disp[d].routes
            /\ EntryPoint(protocol, "initialize") # "none"
            /\ EntryPoint(protocol, "shutdown") # "none"
            /\ disp[d] = Constructed(d)

\* after an invoke and a lifecycle call on the dispatcher whose interface has
\* marked and unmarked members
CapabilityDescriptorWitness ==
    /\ "fbModels" \in DOMAIN disp
    /\ disp["fbModels"].routes = {"register_model"}
    /\ last.d = "fbModels" /\ last.via = "passthrough"
    /\ call_count["b3"] = 1
    /\ NumFiles = 1

\* C21 - Record format and location: a file changes only when an invoke
\* returns from its backend call, and the file that invoke writes is at
\* <cache_dir>/<api_name>/<provider_type>/<cache_key>.json, where api_name is
\* the lowered interface name without "provider"; it holds one object with
\* the keys cache_key, response and metadata, metadata has the keys
\* provider_type, api_name and response_type, and response_type is the type
\* name of the result the backend returned.
RecordFormatAndLocation ==
    [][LET self == disp[last'.d]
           path == <<self.cache_dir, ApiName(self.protocol), ProviderType(self),
                     last'.key \o ".json">>
       IN  /\ (\E p \in DOMAIN files' : p \notin DOMAIN files \/ files'[p] # files[p])
                 => IsResumption /\ last'.out = "return"
           /\ (IsResumption /\ last'.out = "return")
                 => /\ path \in DOMAIN files'
                    /\ \A p \in DOMAIN files' :
                          (p \notin DOMAIN files \/ files'[p] # files[p]) => p = path
                    /\ DOMAIN files'[path] = {"cache_key", "response", "metadata"}
                    /\ DOMAIN files'[path].metadata
                          = {"provider_type", "api_name", "response_type"}
                    /\ files'[path].cache_key = last'.key
                    /\ files'[path].metadata.provider_type = ProviderType(self)
                    /\ files'[path].metadata.response_type = last'.val.cls]_vars

\* register_model('m1') was recorded through the dispatcher of the models
\* interface: the one file of the store is in mockmodels/ModelsImpl
RecordFormatAndLocationWitness ==
    /\ last.via = "backend" /\ last.out = "return"
    /\ DOMAIN files = {<<"root", "mockmodels", "ModelsImpl",
                         "mockmodels_ModelsImpl_register_model_97b5446b.json">>}
    /\ \A p \in DOMAIN files : files[p].metadata.response_type = "str"

\* C22 - Writes happen only after a successful backend call: a step that
\* changes the store is the resumption of one invoke whose awaited backend
\* call, made for the operation and arguments of that invoke, returned; the
\* file it changes is the record of that invoke.  An invoke on a CACHE_ONLY
\* dispatcher never suspends and never changes the store, and the store never
\* holds more records than backend calls have returned or raised.
WritesOnlyAfterBackendSuccess ==
    [][/\ (\E p \in DOMAIN files' : p \notin DOMAIN files \/ files'[p] # files[p])
          => \E t \in 1..MaxTasks :
                LET self == disp[tasks[t].d]
                IN  /\ tasks[t].pc = "awaiting" /\ tasks'[t].pc = "idle"
                    /\ \A u \in 1..MaxTasks : u # t => tasks'[u] = tasks[u]
                    /\ self.mode = "CACHE_WITH_FALLBACK"
                    /\ self.real_provider # "None"
                    /\ tasks[t].n \in 1..call_count[self.real_provider]
                    /\ last'.out = "return" /\ last'.via = "backend"
                    /\ last'.d = tasks[t].d /\ last'.op = tasks[t].op /\ last'.a = tasks[t].a
                    /\ last'.val \in BackendResults(self.real_provider, tasks[t].a, tasks[t].n)
                    /\ \A p \in DOMAIN files' :
                          (p \notin DOMAIN files \/ files'[p] # files[p])
                            => p = PathOf(tasks[t].d, tasks[t].op, tasks[t].a)
       /\ (IsEntry /\ disp[Entry.d].mode = "CACHE_ONLY")
          => EndsAtOnce /\ files' = files /\ call_count' = call_count
       /\ NumFiles' + Cardinality({t \in 1..MaxTasks : tasks'[t].pc = "awaiting"}) <= CallsMade']_vars

\* two records were written after two backend calls returned, next to a
\* CACHE_ONLY dispatcher on the same store
WritesOnlyAfterBackendSuccessWitness ==
    /\ "co" \in DOMAIN disp
    /\ NoneSuspended
    /\ last.via = "backend" /\ last.out = "return"
    /\ NumFiles = 2 /\ CallsMade = 2
    /\ files[PathOf(last.d, last.op, last.a)] = CacheData(disp[last.d], last.key, last.val)

\* C23 - A hit is read-only: an invoke that is served from the cache, on a
\* dispatcher of either mode, leaves the store as it was: the same files
\* with the same contents, and the same directories.
HitIsReadOnly ==
    [][(EndsAtOnce /\ last'.out = "return" /\ last'.via = "cache")
          => files' = files /\ dirs' = dirs]_vars

\* the CACHE_ONLY dispatcher has served a record that an earlier version
\* wrote; the file is as it was when the dispatcher was constructed, next to
\* a record written in this run
HitIsReadOnlyWitness ==
    /\ last.d = "co" /\ last.via = "cache" /\ last.out = "return"
    /\ last.val = PyDict(<<F("text", S("old"))>>)
    /\ files[StoredPath] = StoredFile("drift", StoredKey)
    /\ NumFiles = 2

\* C24 - Records are permanent: no step of any dispatcher (an invoke in
\* either mode, at its entry or at its resumption, a lifecycle call, the
\* construction of a dispatcher) removes a file from the store, and every
\* key that has a record before the step has one after it.
RecordsArePermanent ==
    [][/\ DOMAIN files \subseteq DOMAIN files'
       /\ {files[p].cache_key : p \in DOMAIN files}
            \subseteq {files'[p].cache_key : p \in DOMAIN files'}]_vars

\* a record of an earlier run is still in the store after a dispatcher was
\* constructed on it, the backend was shut down through a passthrough, one
\* backend call failed and another one added a record
RecordsArePermanentWitness ==
    /\ DOMAIN disp = {"fb", "co"}
    /\ lifecycle["b1"]["shutdown"] >= 1
    /\ call_count["b1"] = 2
    /\ NoneSuspended
    /\ last.out = "ConnectionError"
    /\ NumFiles = 2
    /\ files[StoredPath] = StoredFile("drift", StoredKey)

\* C25 - Namespace directories are created lazily on first write: the lookup
\* of an invoke (a hit, a miss that goes on to the backend, a miss that fails
\* under CACHE_ONLY or without a backend) creates no directory; a directory
\* under the cache root appears only in the step that writes a record.
LazyNamespaceDirectories ==
    [][/\ IsEntry => dirs' = dirs
       /\ dirs' # dirs => (IsResumption /\ last'.out = "return")]_vars

\* C26 - Single suspension point: an invoke is suspended only while its
\* backend call is in flight.  From its entry to the backend call (key,
\* existence check, read, decode, decision) and from the return of the
\* backend call to its own return (encode, write) it runs in one step each,
\* so every step changes at most one invoke, the step that resumes an invoke
\* leaves its complete record in the store, and no lookup of an interleaved
\* invoke ever meets a file that is not a complete record.
SingleSuspensionPoint ==
    [][/\ Cardinality({t \in 1..MaxTasks : tasks'[t] # tasks[t]}) <= 1
       /\ \A t \in 1..MaxTasks : tasks'[t].pc \in {"idle", "awaiting"}
       /\ Cardinality({t \in 1..MaxTasks : tasks'[t].pc = "awaiting"})
            <= CallsMade' - NumFiles'
       /\ IsSuspension => files' = files /\ last' = last
       /\ (IsResumption /\ last'.out = "return")
            => files'[PathOf(last'.d, last'.op, last'.a)]
                 = CacheData(disp[last'.d], last'.key, last'.val)
       /\ \A p \in DOMAIN files' : Parses(files'[p])
       /\ last'.out # "JSONDecodeError"]_vars

\* an invoke was served from a record while another invoke for the same key,
\* which had looked up before that record was written, is still suspended at
\* its backend call
SingleSuspensionPointWitness ==
    /\ last.via = "cache" /\ last.out = "return"
    /\ \E t \in 1..MaxTasks :
          /\ tasks[t].pc = "awaiting"
          /\ tasks[t].d = last.d
          /\ tasks[t].key = last.key
    /\ last.val = DecodeRecord(files[PathOf(last.d, last.op, last.a)])

\* C27 - Bounded duplicate backend calls under concurrency: in every
\* interleaving, an invoke that calls the backend for a key did its lookup
\* when the store held no record for that key, and an invoke that does its
\* lookup when a put for its key has completed ends at once without a backend
\* call; so the backend calls for a key are made by invokes that looked up
\* before the first put for it completed.
BoundedDuplicateCalls ==
    [][/\ IsSuspension
          => /\ PathOf(Entry.d, Entry.op, Entry.a) \notin DOMAIN files
             /\ \A p \in DOMAIN files : files[p].cache_key # KeyOf(Entry.d, Entry.op, Entry.a)
       /\ (/\ IsEntry
           /\ Entry.op \in disp[Entry.d].routes
           /\ \E p \in DOMAIN files : files[p].cache_key = KeyOf(Entry.d, Entry.op, Entry.a))
          => /\ EndsAtOnce
             /\ call_count' = call_count
             /\ last'.via = "cache"]_vars

\* two invokes for one key looked up before any put for it and both called
\* the backend; the first has put its record and the second is still
\* suspended when a third invoke for the key is served from that record
BoundedDuplicateCallsWitness ==
    /\ last.via = "cache" /\ last.out = "return"
    /\ files[PathOf(last.d, last.op, last.a)]
          = CacheData(disp[last.d], last.key, MockCompletion(last.a, 1))
    /\ \E t \in 1..MaxTasks :
          /\ tasks[t].pc = "awaiting"
          /\ tasks[t].key = last.key
          /\ tasks[t].n = 2
    /\ call_count["b1"] = 2

\* C28 - Concurrent invokes on different keys are independent: in every
\* interleaving the put of an invoke adds or replaces the record at its own
\* key and leaves every other file as it was; every key in the store has
\* exactly one record, and that record is the encoding of a result the
\* backend returned for the operation and arguments of that key.
IndependentKeys ==
    [][/\ (IsResumption /\ last'.out = "return")
          => /\ DOMAIN files' = DOMAIN files \cup {PathOf(last'.d, last'.op, last'.a)}
             /\ \A p \in DOMAIN files :
                   p # PathOf(last'.d, last'.op, last'.a) => files'[p] = files[p]
             /\ files'[PathOf(last'.d, last'.op, last'.a)]
                  = CacheData(disp[last'.d], last'.key, last'.val)
       /\ \A p, q \in DOMAIN files' : files'[p].cache_key = files'[q].cache_key => p = q
       /\ \A p \in DOMAIN files' :
             \E d \in DOMAIN disp : \E i \in InvocationsOn(disp[d].protocol) :
                /\ i[1] \in disp[d].routes
                /\ disp[d].real_provider # "None"
                /\ p = PathOf(d, i[1], i[2])
                /\ \E n \in 1..call_count'[disp[d].real_provider] :
                      \E r \in BackendResults(disp[d].real_provider, i[2], n) :
                         files'[p] = CacheData(disp[d], KeyOf(d, i[1], i[2]), r)]_vars

\* two invokes with different keys were suspended together: the one that
\* called the backend first returned last, and each key holds the record of
\* its own result
IndependentKeysWitness ==
    /\ NoneSuspended
    /\ last.via = "backend" /\ last.out = "return"
    /\ last.val = MockCompletion(last.a, 1)
    /\ NumFiles = 2
    /\ files[PathOf(last.d, last.op, last.a)] = CacheData(disp[last.d], last.key, last.val)
    /\ \E a \in CompletionArgs :
          /\ KeyOf(last.d, "completion", a) # last.key
          /\ PathOf(last.d, "completion", a) \in DOMAIN files
          /\ files[PathOf(last.d, "completion", a)]
               = CacheData(disp[last.d], KeyOf(last.d, "completion", a), MockCompletion(a, 2))

\* C29 - Replay stability: a hit returns the decoding of the record that is
\* in the store at its key, whatever the backend would return now.  So a hit
\* that follows a hit on the same key, with no put in between, returns an
\* equal value, through whichever dispatcher of the namespace it is made; a
\* hit that follows a put on its key returns the decoding of what that put
\* wrote; and when no invoke for the key is in flight an invoke for it is such
\* a hit and leaves the record as it is.
ReplayStability ==
    [][/\ (EndsAtOnce /\ last'.via = "cache")
          => /\ last'.val = DecodeRecord(files[PathOf(last'.d, last'.op, last'.a)])
             /\ (last.via = "cache" /\ last.key = last'.key) => last'.val = last.val
             /\ (last.via = "backend" /\ last.out = "return" /\ last.key = last'.key)
                  => last'.val = DecodeRecord(CacheData(disp[last.d], last.key, last.val))
       /\ (/\ IsEntry
           /\ Entry.op \in disp[Entry.d].routes
           /\ PathOf(Entry.d, Entry.op, Entry.a) \in DOMAIN files
           /\ \A t \in 1..MaxTasks :
                 tasks[t].pc = "awaiting" => tasks[t].key # KeyOf(Entry.d, Entry.op, Entry.a))
          => /\ EndsAtOnce
             /\ last'.via = "cache"
             /\ files' = files
             /\ \A t \in 1..MaxTasks :
                   tasks'[t].pc = "awaiting" => tasks'[t].key # KeyOf(Entry.d, Entry.op, Entry.a)]_vars

\* the backend was called twice and would answer with call number 3 now; no
\* invoke is in flight and the CACHE_ONLY dispatcher has served the one
\* record of the store, which the first of the two calls wrote
ReplayStabilityWitness ==
    /\ NoneSuspended
    /\ last.d = "co" /\ last.via = "cache" /\ last.out = "return"
    /\ call_count["b1"] = 2
    /\ NumFiles = 1
    /\ last.val = PyStr(Str(MockCompletion(last.a, 1)))
    /\ last.val = DecodeRecord(files[PathOf(last.d, last.op, last.a)])

\* C30 - Encode fallback: when the result of the backend has no
\* structured-field view (neither model_dump nor dict: None, a number, a
\* list, a string, a plain mapping), the record holds str(result) as its response and the type name
\* of the result as response_type; a hit on such a record returns the text,
\* a string, also where the result was None.
EncodeFallback ==
    [][/\ (/\ IsResumption /\ last'.out = "return"
           /\ ~HasModelDump(last'.val) /\ ~HasDict(last'.val))
          => /\ files'[PathOf(last'.d, last'.op, last'.a)].response = JString(Str(last'.val))
             /\ files'[PathOf(last'.d, last'.op, last'.a)].metadata.response_type
                  = last'.val.cls
       /\ (EndsAtOnce /\ last'.via = "cache")
          => /\ files[PathOf(last'.d, last'.op, last'.a)].response.j = "string"
             /\ last'.val = PyStr(files[PathOf(last'.d, last'.op, last'.a)].response.text)
             /\ (last.via = "backend" /\ last.out = "return" /\ last.key = last'.key)
                  => last'.val = PyStr(Str(last.val))]_vars

\* the backend returned None, the record holds the text "None" with the type
\* name NoneType, and the CACHE_ONLY dispatcher has returned the string "None"
EncodeFallbackWitness ==
    /\ last.d = "coPlain" /\ last.via = "cache" /\ last.out = "return"
    /\ last.val = PyStr("None")
    /\ files[PathOf(last.d, last.op, last.a)].response = JString("None")
    /\ files[PathOf(last.d, last.op, last.a)].metadata.response_type = "NoneType"
    /\ \E a \in CompletionArgs :
          /\ PathOf("fbPlain", "completion", a) \in DOMAIN files
          /\ files[PathOf("fbPlain", "completion", a)].response = JString("[1, 'a']")
          /\ files[PathOf("fbPlain", "completion", a)].metadata.response_type = "list"

\* C31 - Existence decides hit: an invoke of a routed operation that finds a
\* parseable record at its key, whatever the record's response is (null
\* included), ends at once with a returned value, calls no backend and does
\* not fail with the cache-miss error; and no step replaces a record that is
\* in the store.
ExistenceDecidesHit ==
    [][/\ (/\ IsEntry
           /\ Entry.op \in disp[Entry.d].routes
           /\ PathOf(Entry.d, Entry.op, Entry.a) \in DOMAIN files
           /\ Parses(files[PathOf(Entry.d, Entry.op, Entry.a)]))
          => /\ EndsAtOnce
             /\ last'.out = "return"
             /\ last'.via = "cache"
             /\ call_count' = call_count
       /\ \A p \in DOMAIN files : files'[p] = files[p]]_vars

\* C32 - Error precedence: an invoke checks the operation name, then the
\* cache, then the mode, then the presence of a backend.  An undeclared name
\* fails with AttributeError whatever the store holds; a record at the key is
\* returned in either mode, with or without a backend; a miss under
\* CACHE_ONLY fails with the cache-miss error, also without a backend; only a
\* miss under CACHE_WITH_FALLBACK without a backend fails with the no-backend
\* error.
ErrorPrecedence ==
    [][IsEntry =>
         LET self == disp[Entry.d]
             path == PathOf(Entry.d, Entry.op, Entry.a)
             key == KeyOf(Entry.d, Entry.op, Entry.a)
         IN  IF Entry.op \notin self.routes
             THEN /\ EndsAtOnce
                  /\ last'.out = "AttributeError"
                  /\ last'.msg = UnknownMethodMessage(Entry.op)
             ELSE IF path \in DOMAIN files
             THEN /\ EndsAtOnce
                  /\ last'.out = "return" /\ last'.via = "cache"
                  /\ last'.val = DecodeRecord(files[path])
             ELSE IF self.mode = "CACHE_ONLY"
             THEN /\ EndsAtOnce
                  /\ last'.out = "RuntimeError"
                  /\ last'.msg = CacheOnlyMissMessage(key)
             ELSE IF self.real_provider = "None"
             THEN /\ EndsAtOnce
                  /\ last'.out = "RuntimeError"
                  /\ last'.msg = NoProviderMessage(key)
             ELSE IsSuspension]_vars

\* a CACHE_WITH_FALLBACK dispatcher without a backend has returned the record
\* that was at the key, on a root where nothing else was done
ErrorPrecedenceWitness ==
    /\ last.d = "fbNone"
    /\ disp["fbNone"].real_provider = "None" /\ disp["fbNone"].mode = "CACHE_WITH_FALLBACK"
    /\ last.out = "return" /\ last.via = "cache"
    /\ last.val = PyStr("old")
    /\ CallsMade = 0

\* C33 - Store write failure is fatal: under CACHE_WITH_FALLBACK, when the
\* backend call has returned and the write of the record fails, the invoke
\* ends in that step with the error of the store and no value, the backend
\* counter keeps the increase of the call and is not increased again, and no
\* complete record of the result is left at the key; a backend result is
\* returned to the caller only together with its record.
StoreWriteFailureIsFatal ==
    [][/\ (IsResumption /\ last'.via = "store")
          => /\ last'.out \in StoreFaults
             /\ last'.val = PyNone
             /\ disp[last'.d].mode = "CACHE_WITH_FALLBACK"
             /\ call_count' = call_count
             /\ call_count[disp[last'.d].real_provider] >= 1
             /\ \A t \in 1..MaxTasks :
                   (tasks[t].pc = "awaiting" /\ tasks'[t].pc = "idle")
                     => call_count[disp[last'.d].real_provider] = tasks[t].n
             /\ NoneSuspended'
             /\ \/ /\ PathOf(last'.d, last'.op, last'.a) \notin DOMAIN files
                   /\ files' = files
                \/ /\ PathOf(last'.d, last'.op, last'.a) \in DOMAIN files'
                   /\ ~Parses(files'[PathOf(last'.d, last'.op, last'.a)])
       /\ (IsResumption /\ last'.out = "return")
          => /\ PathOf(last'.d, last'.op, last'.a) \in DOMAIN files'
             /\ files'[PathOf(last'.d, last'.op, last'.a)]
                  = CacheData(disp[last'.d], last'.key, last'.val)]_vars

\* the backend was called once and returned, the open of the record file was
\* refused: the caller got PermissionError and the store is empty
StoreWriteFailureIsFatalWitness ==
    /\ NoneSuspended
    /\ last.via = "store" /\ last.out = "PermissionError"
    /\ last.val = PyNone
    /\ call_count["b1"] = 1
    /\ NumFiles = 0

\* C34 - The NoProvider namespace is never populated: no file of the store
\* is in a NoProvider directory or names NoProvider as its provider_type,
\* and, the store having started empty, every invoke of a routed operation on
\* a dispatcher without a backend ends at once with a RuntimeError, in both
\* modes.
NoProviderNeverPopulated ==
    [][/\ \A p \in DOMAIN files' :
             /\ p[3] # "NoProvider"
             /\ files'[p].metadata.provider_type # "NoProvider"
       /\ (/\ IsEntry
           /\ disp[Entry.d].real_provider = "None"
           /\ Entry.op \in disp[Entry.d].routes)
          => /\ EndsAtOnce
             /\ last'.out = "RuntimeError"]_vars


\* this step is a call of the factory, and the call it made
IsBuild(c) == last' # last /\ last'.via = "factory" /\ last'.d = FactoryName(c)

\* C35 - Factory never builds a fallback dispatcher without a backend: when
\* real_provider_id is not among the inner implementations, the factory builds
\* a dispatcher with no backend only if the configured mode is "cache_only" and
\* otherwise fails with ValueError without building a dispatcher; no
\* dispatcher built by the factory is a CACHE_WITH_FALLBACK dispatcher without
\* a backend, and no invoke of one ends in the no-backend error.
FactoryRequiresBackendForFallback ==
    /\ [][\A c \in FactoryCalls :
            (IsBuild(c) /\ "fireworks" \notin DOMAIN InnerImpls(c[3])) =>
               IF c[2] = "cache_only"
               THEN \/ last'.out = "ValueError" /\ disp' = disp
                    \/ /\ last'.out = "return"
                       /\ FactoryName(c) \in DOMAIN disp' \ DOMAIN disp
                       /\ disp'[FactoryName(c)].real_provider = "None"
                       /\ disp'[FactoryName(c)].mode = "CACHE_ONLY"
               ELSE /\ last'.out = "ValueError"
                    /\ last'.msg = "Real provider 'fireworks' not found in inner implementations"
                    /\ disp' = disp]_vars
    /\ [](\A d \in DOMAIN disp :
            ~(disp[d].real_provider = "None" /\ disp[d].mode # "CACHE_ONLY"))
    /\ [](last.via # "factory" /\ last.out = "RuntimeError"
            => last.msg # NoProviderMessage(last.key))

\* a dispatcher the factory built without a backend has missed its cache and
\* raised the cache-miss error
FactoryRequiresBackendForFallbackWitness ==
    /\ last.d = FactoryName(<<"inference", "cache_only", "absent">>)
    /\ last.d \in DOMAIN disp
    /\ disp[last.d].real_provider = "None"
    /\ last.via # "factory"
    /\ last.out = "RuntimeError"
    /\ last.msg = CacheOnlyMissMessage(last.key)


\* C36 - Mode mapping in the factory: the factory builds a CACHE_ONLY
\* dispatcher if and only if the configured mode string is exactly
\* "cache_only"; every other mode string, "cache_with_fallback" and the
\* unrecognised ones alike, yields a CACHE_WITH_FALLBACK dispatcher, and no
\* mode string is rejected: with a known API and the backend among the inner
\* implementations every mode string builds a dispatcher.
FactoryModeMapping ==
    [][\A c \in FactoryCalls : IsBuild(c) =>
         /\ last'.out = "return" =>
              /\ FactoryName(c) \in DOMAIN disp' \ DOMAIN disp
              /\ disp'[FactoryName(c)].mode \in {"CACHE_ONLY", "CACHE_WITH_FALLBACK"}
              /\ disp'[FactoryName(c)].mode = "CACHE_ONLY" <=> c[2] = "cache_only"
         /\ (c[1] \in DOMAIN ApiProtocolMap /\ "fireworks" \in DOMAIN InnerImpls(c[3]))
              => last'.out = "return"
         /\ last'.out # "return" =>
              /\ last'.out = "ValueError"
              /\ \/ last'.msg = "Unknown API: " \o c[1]
                 \/ /\ c[2] # "cache_only"
                    /\ last'.msg = "Real provider 'fireworks' not found in inner implementations"]_vars

\* the dispatcher built from the mode string "CACHE_ONLY" has missed its cache,
\* called the backend and returned its result
FactoryModeMappingWitness ==
    /\ last.d = FactoryName(<<"inference", "CACHE_ONLY", "present">>)
    /\ last.d \in DOMAIN disp
    /\ disp[last.d].mode = "CACHE_WITH_FALLBACK"
    /\ last.via = "backend" /\ last.out = "return"
    /\ CallsMade = 1
    /\ FactoryName(<<"inference", "cache_only", "present">>) \in DOMAIN disp


\* C37 - Path and metadata agree: for every record file written by a
\* dispatcher, the <api_name> and <provider_type> directory names of its path
\* are equal to the api_name and provider_type values stored in the record's
\* metadata.
PathAndMetadataAgree ==
    \A p \in DOMAIN files :
        /\ Len(p) = 4
        /\ p[2] = files[p].metadata.api_name
        /\ p[3] = files[p].metadata.provider_type

\* the part of the statement that the records do satisfy: the provider_type
\* directory is the provider_type of the metadata, and the api_name directory
\* is the lowered interface name of the metadata without "provider"
PathAndMetadataProviderAgree ==
    \A p \in DOMAIN files :
        /\ Len(p) = 4
        /\ p[3] = files[p].metadata.provider_type
        /\ \E d \in DOMAIN disp :
             /\ files[p].metadata.api_name = ProtocolName(disp[d].protocol)
             /\ p[2] = ApiName(disp[d].protocol)


\* callers of dispatchers of both modes and of one without a backend, on a
\* store whose writes can fail; every backend call that was started
\* eventually returns or raises
InitTerminates == InitWith({"fb", "co", "fbNone"}, <<>>)

Resumes(t) ==
    \/ \E response \in BackendResults(disp[tasks[t].d].real_provider, tasks[t].a, tasks[t].n) :
         BackendReturn(t, response)
    \/ \E error \in BackendErrors : BackendRaise(t, error)
    \/ \E response \in BackendResults(disp[tasks[t].d].real_provider, tasks[t].a, tasks[t].n),
          fault \in StoreFaults :
         SaveFails(t, response, fault)

SpecTerminates ==
    /\ InitTerminates
    /\ [][NextFault]_vars
    /\ \A t \in 1..MaxTasks : WF_vars(tasks[t].pc = "awaiting" /\ Resumes(t))

\* the paths at which two stores differ
ChangedPaths(fs, gs) ==
    {p \in DOMAIN fs \cup DOMAIN gs :
        ~(p \in DOMAIN fs /\ p \in DOMAIN gs /\ fs[p] = gs[p])}

\* C38 - Every invoke terminates without retry: an invoke looks the key up
\* once, at its entry, where it either ends or starts the one backend call it
\* makes; when that call returns or raises the invoke ends in the same step,
\* with no further backend call and at most one record written; every invoke
\* whose backend call was started eventually ends; and each invoke ends in
\* exactly one outcome: a returned value, the unknown-operation error, the
\* cache-miss error, the no-backend error, the error of the backend, or an
\* error of the store.
InvokeTerminatesWithoutRetry ==
    /\ [][/\ EndsAtOnce =>
               /\ call_count' = call_count /\ files' = files
               /\ \/ last'.out = "return" /\ last'.via = "cache"
                  \/ last'.out = "AttributeError" /\ last'.msg = UnknownMethodMessage(last'.op)
                  \/ last'.out = "RuntimeError" /\ last'.msg = CacheOnlyMissMessage(last'.key)
                  \/ last'.out = "RuntimeError" /\ last'.msg = NoProviderMessage(last'.key)
                  \/ last'.out = "JSONDecodeError"
          /\ IsSuspension =>
               /\ CallsMade' = CallsMade + 1
               /\ files' = files /\ last' = last
          /\ \A t \in 1..MaxTasks :
               /\ (tasks[t].pc = "awaiting" /\ tasks'[t].pc = "awaiting") => tasks'[t] = tasks[t]
               /\ (tasks[t].pc = "awaiting" /\ tasks'[t].pc = "idle") =>
                    /\ call_count' = call_count
                    /\ ChangedPaths(files, files')
                         \subseteq {GetCachePath(disp[tasks[t].d], tasks[t].key)}
                    /\ last'.d = tasks[t].d /\ last'.op = tasks[t].op /\ last'.a = tasks[t].a
                    /\ \/ last'.out = "return" /\ last'.via = "backend"
                       \/ last'.out \in BackendErrors /\ last'.via = "backend"
                            /\ files' = files
                       \/ last'.out \in StoreFaults /\ last'.via = "store"
               /\ (tasks[t].pc = "awaiting" /\ tasks'[t] # tasks[t]) => tasks'[t].pc = "idle"
          /\ (~IsEntry /\ ~IsResumption) => UNCHANGED <<call_count, files, last>>]_vars
    /\ \A t \in 1..MaxTasks : (tasks[t].pc = "awaiting") ~> (tasks[t].pc = "idle")

\* an invoke has ended in the error its one backend call raised, and nothing
\* was written
InvokeTerminatesWithoutRetryWitness ==
    /\ last.out \in BackendErrors /\ last.via = "backend"
    /\ last.d = "fb"
    /\ CallsMade = 1
    /\ \A t \in 1..MaxTasks : tasks[t].pc = "idle"
    /\ DOMAIN files = {}

====
